---- MODULE Spec2Model ----
(***************************************************************************)
(* Tidepool marine data dashboard: the source adapters (FishBase, OBIS,    *)
(* Open-Meteo), their fallback providers, and the Express routes that wrap *)
(* them.  JavaScript values are tagged records, a thrown exception is the  *)
(* value Thrown, and a promise settlement is a record [st, live, value].   *)
(* A number is a decimal n * 10^-d (d <= 3), so that the coordinates, wave *)
(* heights and temperatures of the code are exact.                         *)
(***************************************************************************)
EXTENDS Integers, Sequences, FiniteSets, TLC

\* Longest upstream result array the model enumerates.
MaxRecs == 1

\* The loads of the dashboard a page starts.
MaxLoads == 2

\* The largest maxAttempts retryWithBackoff is called with.
MaxAttemptsArg == 3

-----------------------------------------------------------------------------
(* JavaScript values                                                       *)

Undefined == [t |-> "undefined"]
Null == [t |-> "null"]
NaN == [t |-> "NaN"]
Num(k) == [t |-> "number", n |-> k, d |-> 0]
Dec(n, d) == [t |-> "number", n |-> n, d |-> d]
Str(s) == [t |-> "string", s |-> s]
Arr(items) == [t |-> "array", items |-> items]
Obj(f) == [t |-> "object", f |-> f]
Bool(b) == [t |-> "boolean", b |-> b]
Thrown == [t |-> "throw"]

\* Decimal text with d digits after the point: n is in units of 10^-d.
FixedText(n, d) == [t |-> "string", s |-> "fixed", n |-> n, d |-> d]

Pow10(d) == CASE d = 0 -> 1 [] d = 1 -> 10 [] d = 2 -> 100 [] OTHER -> 1000

\* The value of a number in thousandths.
Milli(v) == v.n * Pow10(3 - v.d)

\* m thousandths rounded to d digits, half away from zero.
RoundTo(m, d) ==
  LET u == Pow10(3 - d)
  IN IF m >= 0 THEN (2 * m + u) \div (2 * u) ELSE -((2 * (-m) + u) \div (2 * u))

\* v.toFixed(d): a TypeError unless v is a number.
ToFixed(v, d) ==
  CASE v.t = "number" -> FixedText(RoundTo(Milli(v), d), d)
    [] v.t = "NaN" -> Str("NaN")
    [] OTHER -> Thrown

\* ToNumber(v) for the relational operators: decimal text is its number,
\* any other string here is non-numeric.
ToNumber(v) ==
  CASE v.t = "number" -> v
    [] v.t = "null" -> Num(0)
    [] v.t = "string" /\ v.s = "fixed" -> [t |-> "number", n |-> v.n, d |-> v.d]
    [] OTHER -> NaN

\* a < b, a >= b, a <= b: false when either side is NaN
Lt(a, b) ==
  LET x == ToNumber(a) y == ToNumber(b)
  IN x.t = "number" /\ y.t = "number" /\ Milli(x) < Milli(y)
Ge(a, b) ==
  LET x == ToNumber(a) y == ToNumber(b)
  IN x.t = "number" /\ y.t = "number" /\ Milli(x) >= Milli(y)
Le(a, b) == Ge(b, a)

\* typeof v
TypeOf(v) ==
  CASE v.t \in {"number", "NaN"} -> "number"
    [] v.t = "string" -> "string"
    [] v.t = "undefined" -> "undefined"
    [] v.t = "boolean" -> "boolean"
    [] OTHER -> "object"

\* ToBoolean(v), as `||` and `!` apply it
Truthy(v) ==
  CASE v.t \in {"undefined", "null", "NaN"} -> FALSE
    [] v.t = "number" -> v.n # 0
    [] v.t = "string" -> v.s # ""
    [] v.t = "boolean" -> v.b
    [] OTHER -> TRUE

\* a || b
Or(a, b) == IF Truthy(a) THEN a ELSE b

\* o.k on a value that is not undefined or null
Field(o, k) == IF o.t = "object" /\ k \in DOMAIN o.f THEN o.f[k] ELSE Undefined

\* a?.[0]
OptIndex0(a) ==
  IF a.t = "array" /\ Len(a.items) > 0 THEN a.items[1] ELSE Undefined

\* A default parameter value: applied when the argument is undefined.
Default(arg, dflt) == IF arg.t = "undefined" THEN dflt ELSE arg

\* The outcomes of an outbound axios GET: a rejection (network failure, the
\* 10 s timeout, a non-2xx status) or a response carrying a body.
Failures == {[ok |-> FALSE, why |-> w] : w \in {"network", "timeout", "status"}}
Response(body) == [ok |-> TRUE, data |-> body]

\* Promise settlements of an adapter call.  live tells whether the value was
\* built from the upstream body.
Resolved(v, live) == [st |-> "resolved", live |-> live, value |-> v]
Rejected == [st |-> "rejected", live |-> FALSE, value |-> Undefined]

\* Nonempty sequences over S of length at most n.
SeqsUpTo(S, n) == UNION {[1..k -> S] : k \in 1..n}

-----------------------------------------------------------------------------
(* FishBase adapter                                                        *)

getDefaultFishData ==
  Arr(<< Obj([id |-> Num(1), name |-> Str("Tuna"), genus |-> Str("Thunnus"),
              family |-> Str("Scombridae"), marine |-> Num(1),
              freshwater |-> Num(0), brackish |-> Num(0), icon |-> Str("fish")]),
         Obj([id |-> Num(2), name |-> Str("Salmon"), genus |-> Str("Salmo"),
              family |-> Str("Salmonidae"), marine |-> Num(1),
              freshwater |-> Num(1), brackish |-> Num(1), icon |-> Str("fish")]),
         Obj([id |-> Num(3), name |-> Str("Cod"), genus |-> Str("Gadus"),
              family |-> Str("Gadidae"), marine |-> Num(1),
              freshwater |-> Num(0), brackish |-> Num(0), icon |-> Str("fish")]),
         Obj([id |-> Num(4), name |-> Str("Anchovy"), genus |-> Str("Engraulis"),
              family |-> Str("Engraulidae"), marine |-> Num(1),
              freshwater |-> Num(0), brackish |-> Num(0), icon |-> Str("fish")]),
         Obj([id |-> Num(5), name |-> Str("Herring"), genus |-> Str("Clupea"),
              family |-> Str("Clupeidae"), marine |-> Num(1),
              freshwater |-> Num(0), brackish |-> Num(0), icon |-> Str("fish")]) >>)

\* Upstream species records: complete, without any field, and with the
\* alternative id/name fields and a Marine flag of 0.
FishRecFull ==
  Obj([SpecCode |-> Num(69), Species |-> Str("morhua"), Genus |-> Str("Gadus"),
       Family |-> Str("Gadidae"), Freshwater |-> Num(0), Marine |-> Num(1),
       Brackish |-> Num(0)])
FishRecBare == Obj(<<>>)
FishRecOdd ==
  Obj([id |-> Num(7), name |-> Str("Eel"), Freshwater |-> Num(1),
       Marine |-> Num(0), Brackish |-> Num(1)])
FishRecs == {FishRecFull, FishRecBare, FishRecOdd}

\* Bodies of GET /species: absent, empty, not an array, an array holding
\* null, and arrays of records.
FishBodies ==
  {Undefined, Arr(<<>>), Str("<html>"), Arr(<<Null>>)}
    \cup {Arr(s) : s \in SeqsUpTo(FishRecs, MaxRecs)}

\* data.map(record => ...) raises a TypeError: data has no map, or the
\* callback reads a field of a null or undefined element.
MapThrows(data) ==
  \/ data.t # "array"
  \/ \E i \in DOMAIN data.items : data.items[i].t \in {"null", "undefined"}

\* !response.data || response.data.length === 0
EmptyBody(data) ==
  \/ ~Truthy(data)
  \/ data.t = "array" /\ Len(data.items) = 0

FishSpeciesRecord(fish) ==
  Obj([id |-> Or(Field(fish, "SpecCode"), Field(fish, "id")),
       name |-> Or(Or(Field(fish, "Species"), Field(fish, "name")),
                   Str("Unknown Species")),
       genus |-> Or(Field(fish, "Genus"), Str("Unknown")),
       family |-> Or(Field(fish, "Family"), Str("Unknown")),
       freshwater |-> Or(Field(fish, "Freshwater"), Num(0)),
       marine |-> Or(Field(fish, "Marine"), Num(1)),
       brackish |-> Or(Field(fish, "Brackish"), Num(0)),
       icon |-> Str("fish")])

\* getFishSpecies with the catch block of getFishByFamily: an empty array
\* when the GET fails.
getFishSpecies_EmptyOnFailure(limit, out) ==
  IF ~out.ok THEN Resolved(Arr(<<>>), FALSE)
  ELSE IF EmptyBody(out.data) THEN Resolved(getDefaultFishData, FALSE)
  ELSE IF MapThrows(out.data) THEN Resolved(getDefaultFishData, FALSE)
  ELSE Resolved(Arr([i \in DOMAIN out.data.items |->
                       FishSpeciesRecord(out.data.items[i])]), TRUE)

getFishSpecies(limit, out) ==
  IF ~out.ok THEN Resolved(getDefaultFishData, FALSE)
  ELSE IF EmptyBody(out.data) THEN Resolved(getDefaultFishData, FALSE)
  ELSE IF MapThrows(out.data) THEN Resolved(getDefaultFishData, FALSE)
  ELSE Resolved(Arr([i \in DOMAIN out.data.items |->
                       FishSpeciesRecord(out.data.items[i])]), TRUE)

FishFamilyRecord(fish, family) ==
  Obj([id |-> Or(Field(fish, "SpecCode"), Field(fish, "id")),
       name |-> Or(Field(fish, "Species"), Field(fish, "name")),
       family |-> family,
       icon |-> Str("fish")])

getFishByFamily(familyArg, out) ==
  LET family == Default(familyArg, Str("Salmonidae"))
  IN IF ~out.ok THEN Resolved(Arr(<<>>), FALSE)
     ELSE IF EmptyBody(out.data) THEN Resolved(Arr(<<>>), FALSE)
     ELSE IF MapThrows(out.data) THEN Resolved(Arr(<<>>), FALSE)
     ELSE Resolved(Arr([i \in DOMAIN out.data.items |->
                          FishFamilyRecord(out.data.items[i], family)]), TRUE)

-----------------------------------------------------------------------------
(* OBIS adapter                                                            *)

getDefaultBiodiversityData ==
  Obj([total |-> Num(5),
       observations |-> Arr(<<
         Obj([id |-> Num(1), species |-> Str("Balaenoptera musculus (Blue Whale)"),
              commonName |-> Str("Blue Whale"), latitude |-> Dec(375, 1),
              longitude |-> Dec(-1224, 1), date |-> Str("2024-02-01"),
              datasetName |-> Str("Marine Mammal Observations"),
              icon |-> Str("whale")]),
         Obj([id |-> Num(2), species |-> Str("Megaptera novaeangliae (Humpback Whale)"),
              commonName |-> Str("Humpback Whale"), latitude |-> Dec(378, 1),
              longitude |-> Dec(-1231, 1), date |-> Str("2024-02-05"),
              datasetName |-> Str("Whale Migration Tracking"),
              icon |-> Str("whale")]),
         Obj([id |-> Num(3), species |-> Str("Chelonia mydas (Green Sea Turtle)"),
              commonName |-> Str("Green Sea Turtle"), latitude |-> Dec(255, 1),
              longitude |-> Dec(-802, 1), date |-> Str("2024-02-08"),
              datasetName |-> Str("Sea Turtle Database"),
              icon |-> Str("turtle")]),
         Obj([id |-> Num(4), species |-> Str("Echinorhinus brucus (Bramble Shark)"),
              commonName |-> Str("Bramble Shark"), latitude |-> Dec(452, 1),
              longitude |-> Dec(-1245, 1), date |-> Str("2024-02-10"),
              datasetName |-> Str("Deep Sea Research"),
              icon |-> Str("shark")]),
         Obj([id |-> Num(5), species |-> Str("Strongylocentrotus purpuratus (Purple Sea Urchin)"),
              commonName |-> Str("Purple Sea Urchin"), latitude |-> Dec(341, 1),
              longitude |-> Dec(-1193, 1), date |-> Str("2024-02-12"),
              datasetName |-> Str("Kelp Forest Survey"),
              icon |-> Str("circle")]) >>),
       source |-> Str("OBIS API (Fallback)")])

getDefaultSpeciesStats ==
  Obj([totalSpecies |-> Num(234567), totalObservations |-> Num(123456789),
       totalDatasets |-> Num(3251), icon |-> Str("chart")])

\* Upstream occurrence records: complete, and without any field.
ObsRecFull ==
  Obj([id |-> Str("a1"), scientificName |-> Str("Orcinus orca"),
       decimalLatitude |-> Dec(481, 1), decimalLongitude |-> Dec(-1230, 1),
       eventDate |-> Str("2024-03-01"), datasetName |-> Str("Cetaceans")])
ObsRecBare == Obj(<<>>)
ObsRecs == {ObsRecFull, ObsRecBare}

\* Bodies of GET /occurrence: absent, without results, with results that are
\* not an array, with an empty result list, and with records.
ObsBodies ==
  {Undefined, Obj(<<>>), Obj([results |-> Num(7)]),
   Obj([results |-> Arr(<<>>), total |-> Num(0)])}
    \cup {Obj([results |-> Arr(s), total |-> Num(4200)]) : s \in SeqsUpTo(ObsRecs, MaxRecs)}

\* !response.data || !response.data.results
NoResults(data) == ~Truthy(data) \/ ~Truthy(Field(data, "results"))

ObservationRecord(obs) ==
  Obj([id |-> Field(obs, "id"),
       species |-> Or(Or(Field(obs, "scientificName"), Field(obs, "species")),
                      Str("Unknown")),
       commonName |-> Or(Field(obs, "commonName"), Str("")),
       latitude |-> Field(obs, "decimalLatitude"),
       longitude |-> Field(obs, "decimalLongitude"),
       date |-> Field(obs, "eventDate"),
       datasetName |-> Or(Field(obs, "datasetName"), Str("OBIS")),
       icon |-> Str("wave")])

\* options.limit on the options argument throws when options is null, before
\* the GET is issued.
BiodiversityParamsThrow(optionsArg) == Default(optionsArg, Obj(<<>>)).t = "null"

getBiodiversityObservations(optionsArg, out) ==
  IF BiodiversityParamsThrow(optionsArg)
  THEN Resolved(getDefaultBiodiversityData, FALSE)
  ELSE IF ~out.ok THEN Resolved(getDefaultBiodiversityData, FALSE)
  ELSE IF NoResults(out.data) THEN Resolved(getDefaultBiodiversityData, FALSE)
  ELSE IF MapThrows(Field(out.data, "results"))
  THEN Resolved(getDefaultBiodiversityData, FALSE)
  ELSE LET results == Field(out.data, "results").items
           observations == Arr([i \in DOMAIN results |-> ObservationRecord(results[i])])
       IN Resolved(Obj([total |-> Or(Field(out.data, "total"), Num(Len(results))),
                        observations |-> observations,
                        source |-> Str("OBIS API")]), TRUE)

\* Bodies of GET /statistics: absent, complete, and with a negative count, a
\* count given as text and a count of 0.
StatsBodies ==
  {Undefined,
   Obj([species |-> Num(150000), observations |-> Num(90000000),
        datasets |-> Num(4000)]),
   Obj([species |-> Num(-1), observations |-> Str("many"), datasets |-> Num(0)])}

StatsRecord(data) ==
  Obj([totalSpecies |-> Or(Field(data, "species"), Num(200000)),
       totalObservations |-> Or(Field(data, "observations"), Num(100000000)),
       totalDatasets |-> Or(Field(data, "datasets"), Num(3000)),
       icon |-> Str("chart")])

\* getSpeciesStats with a catch block that throws the error again.
getSpeciesStats_Rethrows(out) ==
  IF ~out.ok THEN Rejected
  ELSE IF ~Truthy(out.data) THEN Resolved(getDefaultSpeciesStats, FALSE)
  ELSE Resolved(StatsRecord(out.data), TRUE)

getSpeciesStats(out) ==
  IF ~out.ok THEN Resolved(getDefaultSpeciesStats, FALSE)
  ELSE IF ~Truthy(out.data) THEN Resolved(getDefaultSpeciesStats, FALSE)
  ELSE Resolved(StatsRecord(out.data), TRUE)

AreaRecord(obs) ==
  Obj([species |-> Or(Field(obs, "scientificName"), Str("Unknown")),
       lat |-> Field(obs, "decimalLatitude"),
       lon |-> Field(obs, "decimalLongitude")])

getObservationsByArea(minLat, maxLat, minLon, maxLon, out) ==
  IF ~out.ok THEN Resolved(Arr(<<>>), FALSE)
  ELSE IF NoResults(out.data) THEN Resolved(Arr(<<>>), FALSE)
  ELSE IF MapThrows(Field(out.data, "results")) THEN Resolved(Arr(<<>>), FALSE)
  ELSE LET results == Field(out.data, "results").items
       IN Resolved(Arr([i \in DOMAIN results |-> AreaRecord(results[i])]), TRUE)

-----------------------------------------------------------------------------
(* Open-Meteo adapter                                                      *)

\* parseFloat(v) of a number is the number; of anything else here, NaN.
ParseFloatValue(v) == IF v.t = "number" THEN v ELSE NaN

getWaveCondition(height) ==
  CASE Lt(height, Num(1)) -> Str("Calm")
    [] ~Lt(height, Num(1)) /\ Lt(height, Num(2)) -> Str("Slight")
    [] ~Lt(height, Num(2)) /\ Lt(height, Num(3)) -> Str("Light")
    [] ~Lt(height, Num(3)) /\ Lt(height, Num(4)) -> Str("Moderate")
    [] ~Lt(height, Num(4)) /\ Lt(height, Num(6)) -> Str("Rough")
    [] ~Lt(height, Num(6)) /\ Lt(height, Num(10)) -> Str("Very Rough")
    [] OTHER -> Str("Phenomenal")

getTemperatureCondition(temp) ==
  CASE Lt(temp, Num(5)) -> Str("Very Cold")
    [] ~Lt(temp, Num(5)) /\ Lt(temp, Num(10)) -> Str("Cold")
    [] ~Lt(temp, Num(10)) /\ Lt(temp, Num(15)) -> Str("Cool")
    [] ~Lt(temp, Num(15)) /\ Lt(temp, Num(20)) -> Str("Mild")
    [] ~Lt(temp, Num(20)) /\ Lt(temp, Num(25)) -> Str("Warm")
    [] OTHER -> Str("Very Warm")

regions ==
  << [name |-> "North Pacific", minLat |-> 30, maxLat |-> 60, minLon |-> 120, maxLon |-> -100],
     [name |-> "South Pacific", minLat |-> -60, maxLat |-> -10, minLon |-> 100, maxLon |-> 180],
     [name |-> "Atlantic Ocean", minLat |-> -60, maxLat |-> 60, minLon |-> -100, maxLon |-> 0],
     [name |-> "Indian Ocean", minLat |-> -60, maxLat |-> 30, minLon |-> 20, maxLon |-> 120],
     [name |-> "Arctic Ocean", minLat |-> 60, maxLat |-> 90, minLon |-> -180, maxLon |-> 180] >>

InRegion(lat, lon, region) ==
  /\ Ge(lat, Num(region.minLat)) /\ Le(lat, Num(region.maxLat))
  /\ Ge(lon, Num(region.minLon)) /\ Le(lon, Num(region.maxLon))

\* The first region holding the point; otherwise the coordinates as text,
\* which is a TypeError when a coordinate has no toFixed.
getLocationName(lat, lon) ==
  LET hits == {i \in DOMAIN regions : InRegion(lat, lon, regions[i])}
  IN IF hits # {}
     THEN Str(regions[CHOOSE i \in hits : \A j \in hits : i <= j].name)
     ELSE LET a == ToFixed(lat, 1)
              b == ToFixed(lon, 1)
          IN IF a = Thrown \/ b = Thrown THEN Thrown
             ELSE [t |-> "string", s |-> "coords", lat |-> a, lon |-> b]

\* The literal getDefaultOceanWeather returns for its coordinates.
DefaultOceanWeatherAt(latitude, longitude) ==
  LET name == getLocationName(latitude, longitude)
  IN IF name = Thrown THEN Thrown
     ELSE Obj([location |-> Obj([latitude |-> latitude, longitude |-> longitude,
                                 name |-> name]),
               current |-> Obj([waveHeight |-> FixedText(15, 1),
                                waveHeightUnit |-> Str("meters"),
                                wavePeriod |-> FixedText(82, 1),
                                wavePeriodUnit |-> Str("seconds"),
                                windWaveHeight |-> FixedText(9, 1),
                                condition |-> Str("Light")]),
               daily |-> Obj([maxTemp |-> FixedText(152, 1),
                              minTemp |-> FixedText(128, 1),
                              tempUnit |-> Str("C")]),
               forecast |-> Arr(<<
                 Obj([day |-> Num(0), waveHeight |-> FixedText(15, 1)]),
                 Obj([day |-> Num(1), waveHeight |-> FixedText(18, 1)]),
                 Obj([day |-> Num(2), waveHeight |-> FixedText(21, 1)]),
                 Obj([day |-> Num(3), waveHeight |-> FixedText(19, 1)]),
                 Obj([day |-> Num(4), waveHeight |-> FixedText(16, 1)]),
                 Obj([day |-> Num(5), waveHeight |-> FixedText(14, 1)]),
                 Obj([day |-> Num(6), waveHeight |-> FixedText(17, 1)]) >>),
               source |-> Str("Open-Meteo Marine API (Fallback)"),
               icon |-> Str("wave")])

\* getDefaultOceanWeather ignoring its arguments: always the default
\* coordinates.
getDefaultOceanWeather_FixedCoords(latArg, lonArg) ==
  DefaultOceanWeatherAt(Dec(375, 1), Dec(-1224, 1))

getDefaultOceanWeather(latArg, lonArg) ==
  DefaultOceanWeatherAt(Default(latArg, Dec(375, 1)), Default(lonArg, Dec(-1224, 1)))

getDefaultTemperatureData(latArg, lonArg) ==
  LET latitude == Default(latArg, Dec(375, 1))
      longitude == Default(lonArg, Dec(-1224, 1))
      name == getLocationName(latitude, longitude)
  IN IF name = Thrown THEN Thrown
     ELSE Obj([location |-> Obj([latitude |-> latitude, longitude |-> longitude,
                                 name |-> name]),
               current |-> Obj([temperature |-> FixedText(135, 1),
                                unit |-> Str("C"),
                                humidity |-> FixedText(72, 0),
                                condition |-> Str("Cool")]),
               daily |-> Obj([maxTemp |-> FixedText(152, 1),
                              minTemp |-> FixedText(128, 1),
                              precipitation |-> Num(0)]),
               source |-> Str("Open-Meteo Weather API (Fallback)"),
               icon |-> Str("thermometer")])

\* Bodies of GET /marine: absent, complete, and with a wave height of 0, null
\* readings, no wind wave height and a temperature of 0.
MarineFull ==
  Obj([hourly |-> Obj([wave_height |-> Arr(<<Dec(1234, 3), Dec(13, 1)>>),
                       wave_period |-> Arr(<<Dec(71, 1)>>),
                       wind_wave_height |-> Arr(<<Dec(45, 2)>>)]),
       daily |-> Obj([wave_height_max |-> Arr(<<Dec(21, 1), Dec(2555, 3)>>),
                      temperature_2m_max |-> Arr(<<Dec(183, 1)>>),
                      temperature_2m_min |-> Arr(<<Dec(121, 1)>>)])])
MarineCalm ==
  Obj([hourly |-> Obj([wave_height |-> Arr(<<Num(0)>>),
                       wave_period |-> Arr(<<Null>>)]),
       daily |-> Obj([wave_height_max |-> Arr(<<Null>>),
                      temperature_2m_max |-> Arr(<<Dec(43, 1)>>),
                      temperature_2m_min |-> Arr(<<Num(0)>>)])])
MarineBodies == {Undefined, MarineFull, MarineCalm}

\* The first seven entries of wave_height_max as forecast days; a TypeError
\* when the field is truthy and has no slice.
Forecast(waveHeightMax) ==
  IF ~Truthy(waveHeightMax) THEN Arr(<<>>)
  ELSE IF waveHeightMax.t # "array" THEN Thrown
  ELSE LET n == IF Len(waveHeightMax.items) < 7 THEN Len(waveHeightMax.items) ELSE 7
       IN Arr([idx \in 1..n |->
                 Obj([day |-> Num(idx - 1),
                      waveHeight |->
                        ToFixed(ParseFloatValue(waveHeightMax.items[idx]), 2)])])

\* The try block of getOceanWeather after a response has arrived.
OceanWeatherLive(latitude, longitude, data) ==
  LET hourly == Or(Field(data, "hourly"), Obj(<<>>))
      daily == Or(Field(data, "daily"), Obj(<<>>))
      latestWaveHeight == Or(OptIndex0(Field(hourly, "wave_height")), Num(0))
      latestWavePeriod == Or(OptIndex0(Field(hourly, "wave_period")), Num(0))
      latestWindWaveHeight == Or(OptIndex0(Field(hourly, "wind_wave_height")), Num(0))
      maxTemp == Or(OptIndex0(Field(daily, "temperature_2m_max")), Str("N/A"))
      minTemp == Or(OptIndex0(Field(daily, "temperature_2m_min")), Str("N/A"))
      name == getLocationName(latitude, longitude)
      forecast == Forecast(Field(daily, "wave_height_max"))
  IN IF name = Thrown \/ forecast = Thrown THEN Thrown
     ELSE Obj([location |-> Obj([latitude |-> latitude, longitude |-> longitude,
                                 name |-> name]),
               current |-> Obj([waveHeight |-> ToFixed(ParseFloatValue(latestWaveHeight), 2),
                                waveHeightUnit |-> Str("meters"),
                                wavePeriod |-> ToFixed(ParseFloatValue(latestWavePeriod), 2),
                                wavePeriodUnit |-> Str("seconds"),
                                windWaveHeight |->
                                  ToFixed(ParseFloatValue(latestWindWaveHeight), 2),
                                condition |-> getWaveCondition(latestWaveHeight)]),
               daily |-> Obj([maxTemp |-> IF TypeOf(maxTemp) = "number"
                                          THEN ToFixed(maxTemp, 1) ELSE maxTemp,
                              minTemp |-> IF TypeOf(minTemp) = "number"
                                          THEN ToFixed(minTemp, 1) ELSE minTemp,
                              tempUnit |-> Str("C")]),
               forecast |-> forecast,
               source |-> Str("Open-Meteo Marine API"),
               icon |-> Str("wave")])

\* A value returned, or an exception leaving the async function.
Settle(v, live) == IF v = Thrown THEN Rejected ELSE Resolved(v, live)

getOceanWeather(latArg, lonArg, out) ==
  LET latitude == Default(latArg, Dec(375, 1))
      longitude == Default(lonArg, Dec(-1224, 1))
      fallback == getDefaultOceanWeather(latitude, longitude)
  IN IF ~out.ok THEN Settle(fallback, FALSE)
     ELSE IF ~Truthy(out.data) THEN Settle(fallback, FALSE)
     ELSE LET built == OceanWeatherLive(latitude, longitude, out.data)
          IN IF built = Thrown THEN Settle(fallback, FALSE)
             ELSE Resolved(built, TRUE)

\* Bodies of GET /weather: absent, without any field, and complete.
TemperatureFull ==
  Obj([current |-> Obj([temperature_2m |-> Dec(142, 1),
                        relative_humidity_2m |-> Num(80)]),
       daily |-> Obj([temperature_2m_max |-> Arr(<<Dec(165, 1)>>),
                      temperature_2m_min |-> Arr(<<Dec(98, 1)>>),
                      precipitation_sum |-> Arr(<<Dec(12, 1)>>)])])
TemperatureBodies == {Undefined, Obj(<<>>), TemperatureFull}

\* The try block of getWaterTemperature after a response has arrived.
WaterTemperatureLive(latitude, longitude, data) ==
  LET current == Or(Field(data, "current"), Obj(<<>>))
      daily == Or(Field(data, "daily"), Obj(<<>>))
      name == getLocationName(latitude, longitude)
  IN IF name = Thrown THEN Thrown
     ELSE Obj([location |-> Obj([latitude |-> latitude, longitude |-> longitude,
                                 name |-> name]),
               current |-> Obj([temperature |-> Or(Field(current, "temperature_2m"),
                                                   Str("N/A")),
                                unit |-> Str("C"),
                                humidity |-> Or(Field(current, "relative_humidity_2m"),
                                                Str("N/A")),
                                condition |->
                                  getTemperatureCondition(Field(current, "temperature_2m"))]),
               daily |-> Obj([maxTemp |-> Or(OptIndex0(Field(daily, "temperature_2m_max")),
                                             Str("N/A")),
                              minTemp |-> Or(OptIndex0(Field(daily, "temperature_2m_min")),
                                             Str("N/A")),
                              precipitation |->
                                Or(OptIndex0(Field(daily, "precipitation_sum")), Num(0))]),
               source |-> Str("Open-Meteo Weather API"),
               icon |-> Str("thermometer")])

getWaterTemperature(latArg, lonArg, out) ==
  LET latitude == Default(latArg, Dec(375, 1))
      longitude == Default(lonArg, Dec(-1224, 1))
      fallback == getDefaultTemperatureData(latitude, longitude)
  IN IF ~out.ok THEN Settle(fallback, FALSE)
     ELSE IF ~Truthy(out.data) THEN Settle(fallback, FALSE)
     ELSE LET built == WaterTemperatureLive(latitude, longitude, out.data)
          IN IF built = Thrown THEN Settle(fallback, FALSE)
             ELSE Resolved(built, TRUE)

\* The fixed locations without the third.
locations_Two ==
  << [name |-> "San Francisco Bay", lat |-> Dec(375, 1), lon |-> Dec(-1224, 1)],
     [name |-> "Great Barrier Reef", lat |-> Dec(-162, 1), lon |-> Dec(1458, 1)] >>

locations ==
  << [name |-> "San Francisco Bay", lat |-> Dec(375, 1), lon |-> Dec(-1224, 1)],
     [name |-> "Great Barrier Reef", lat |-> Dec(-162, 1), lon |-> Dec(1458, 1)],
     [name |-> "Atlantic Mid-Atlantic Ridge", lat |-> Dec(420, 1), lon |-> Dec(-300, 1)] >>

getDefaultMultiLocationData ==
  Arr(<< Obj([name |-> Str("San Francisco Bay"),
              location |-> Obj([latitude |-> Dec(375, 1), longitude |-> Dec(-1224, 1),
                                name |-> Str("San Francisco Bay")]),
              current |-> Obj([waveHeight |-> FixedText(15, 1),
                               waveHeightUnit |-> Str("meters"),
                               wavePeriod |-> FixedText(82, 1),
                               wavePeriodUnit |-> Str("seconds"),
                               windWaveHeight |-> FixedText(9, 1),
                               condition |-> Str("Light")]),
              icon |-> Str("wave")]),
         Obj([name |-> Str("Great Barrier Reef"),
              location |-> Obj([latitude |-> Dec(-162, 1), longitude |-> Dec(1458, 1),
                                name |-> Str("Great Barrier Reef")]),
              current |-> Obj([waveHeight |-> FixedText(12, 1),
                               waveHeightUnit |-> Str("meters"),
                               wavePeriod |-> FixedText(75, 1),
                               wavePeriodUnit |-> Str("seconds"),
                               windWaveHeight |-> FixedText(6, 1),
                               condition |-> Str("Calm")]),
              icon |-> Str("wave")]),
         Obj([name |-> Str("Atlantic Mid-Atlantic Ridge"),
              location |-> Obj([latitude |-> Dec(420, 1), longitude |-> Dec(-300, 1),
                                name |-> Str("Atlantic Mid-Atlantic Ridge")]),
              current |-> Obj([waveHeight |-> FixedText(23, 1),
                               waveHeightUnit |-> Str("meters"),
                               wavePeriod |-> FixedText(98, 1),
                               wavePeriodUnit |-> Str("seconds"),
                               windWaveHeight |-> FixedText(14, 1),
                               condition |-> Str("Moderate")]),
              icon |-> Str("wave")]) >>)

\* The entry named after the snapshot's own location name.
LocationEntry_NameFromWeather(loc, weather) ==
  Obj(weather.f @@ [name |-> weather.f.location.f.name])

\* { name: loc.name, ...weather }: a field of weather replaces one of the
\* same name written before the spread.
LocationEntry(loc, weather) == Obj(weather.f @@ [name |-> Str(loc.name)])

\* Promise.all over the per-location calls, given their settlements in
\* location order: the entries in that order, or, when a call rejected, the
\* catch block's default.
MultiLocationJoin(settled) ==
  IF \E i \in DOMAIN settled : settled[i].st = "rejected"
  THEN Resolved(getDefaultMultiLocationData, FALSE)
  ELSE Resolved(Arr([i \in DOMAIN settled |->
                       LocationEntry(locations[i], settled[i].value)]), TRUE)

-----------------------------------------------------------------------------
(* Query-string parsing                                                    *)

\* A query parameter is absent, or text given as its characters.
Absent == [present |-> FALSE, chars |-> <<>>]
Text(chars) == [present |-> TRUE, chars |-> chars]

DigitChars == {"0", "1", "2", "3", "4", "5", "6", "7", "8", "9"}
DigitValue(c) ==
  CASE c = "0" -> 0 [] c = "1" -> 1 [] c = "2" -> 2 [] c = "3" -> 3 [] c = "4" -> 4
    [] c = "5" -> 5 [] c = "6" -> 6 [] c = "7" -> 7 [] c = "8" -> 8 [] OTHER -> 9

\* The length of the longest prefix of cs made of digits.
RECURSIVE DigitPrefix(_)
DigitPrefix(cs) ==
  IF cs = <<>> \/ Head(cs) \notin DigitChars THEN 0 ELSE 1 + DigitPrefix(Tail(cs))

\* The number a sequence of digits writes, after the digits of acc.
RECURSIVE DigitsValue(_, _)
DigitsValue(cs, acc) ==
  IF cs = <<>> THEN acc ELSE DigitsValue(Tail(cs), 10 * acc + DigitValue(Head(cs)))

\* parseInt(q): an optional sign and the longest run of digits; NaN without
\* a digit, and for an absent parameter.
parseInt(q) ==
  LET neg == q.chars # <<>> /\ Head(q.chars) = "-"
      body == IF q.chars # <<>> /\ Head(q.chars) \in {"-", "+"}
              THEN Tail(q.chars) ELSE q.chars
      k == DigitPrefix(body)
      v == DigitsValue(SubSeq(body, 1, k), 0)
  IN IF ~q.present \/ k = 0 THEN NaN ELSE Num(IF neg THEN -v ELSE v)

\* parseFloat(q): an optional sign, digits, and an optional point followed by
\* digits; NaN without a digit, and for an absent parameter.
parseFloat(q) ==
  LET neg == q.chars # <<>> /\ Head(q.chars) = "-"
      body == IF q.chars # <<>> /\ Head(q.chars) \in {"-", "+"}
              THEN Tail(q.chars) ELSE q.chars
      k == DigitPrefix(body)
      rest == SubSeq(body, k + 1, Len(body))
      f == IF rest # <<>> /\ Head(rest) = "." THEN DigitPrefix(Tail(rest)) ELSE 0
      v == DigitsValue(SubSeq(body, 1, k) \o SubSeq(rest, 2, f + 1), 0)
  IN IF ~q.present \/ k + f = 0 THEN NaN ELSE Dec(IF neg THEN -v ELSE v, f)

\* Values of a limit parameter: absent, "0", "5", "-3", "12abc", "abc", "3.7".
LimitQueries ==
  {Absent, Text(<<"0">>), Text(<<"5">>), Text(<<"-", "3">>),
   Text(<<"1", "2", "a", "b", "c">>), Text(<<"a", "b", "c">>),
   Text(<<"3", ".", "7">>)}

\* Values of a lat or lon parameter: absent, "0", "40.7", "-74.0", "abc".
CoordQueries ==
  {Absent, Text(<<"0">>), Text(<<"4", "0", ".", "7">>),
   Text(<<"-", "7", "4", ".", "0">>), Text(<<"a", "b", "c">>)}

-----------------------------------------------------------------------------
(* public/app.js: what the page shows                                       *)

\* HTML source text in lexical pieces (plain characters, a tag, a character
\* reference): src is what is written, text what is displayed.
Piece(src, text) == [src |-> src, text |-> text]

RECURSIVE Source(_)
Source(pieces) ==
  IF pieces = <<>> THEN "" ELSE Head(pieces).src \o Source(Tail(pieces))

\* textContent of an element whose innerHTML was set to the pieces.
RECURSIVE TextContent(_)
TextContent(pieces) ==
  IF pieces = <<>> THEN "" ELSE Head(pieces).text \o TextContent(Tail(pieces))

\* A string value whose characters are the source of the pieces.
Html(pieces) == [t |-> "string", s |-> Source(pieces), pieces |-> pieces]

\* The text displayed for `${v}` inside a template assigned to innerHTML:
\* the value as a string, parsed as HTML.
Shown(v) ==
  CASE v.t = "string" ->
         IF "pieces" \in DOMAIN v THEN Str(TextContent(v.pieces)) ELSE v
    [] v.t = "undefined" -> Str("undefined")
    [] v.t = "null" -> Str("null")
    [] v.t = "NaN" -> Str("NaN")
    [] v.t = "number" -> [t |-> "string", s |-> "digits", n |-> v.n, d |-> v.d]
    [] v.t = "boolean" -> IF v.b THEN Str("true") ELSE Str("false")
    [] v.t = "array" -> Str("items")
    [] OTHER -> Str("[object Object]")

\* a.map(...) on a value that is not an array, or whose callback reads a
\* property of an undefined or null element, throws.
CardsThrow(list) ==
  \/ list.t # "array"
  \/ \E i \in DOMAIN list.items : list.items[i].t \in {"undefined", "null"}

\* a.length === 0
IsEmptyList(a) == a.t = "array" /\ Len(a.items) = 0

\* The content renderFishSpecies gives the fish container.
renderFishSpecies(species) ==
  IF ~Truthy(species) \/ IsEmptyList(species)
  THEN [kind |-> "placeholder", text |-> "No fish species data available"]
  ELSE IF CardsThrow(species) THEN Thrown
  ELSE LET FishCard(fish) ==
             [icon |-> Shown(Or(Field(fish, "icon"), Str("fish"))),
              title |-> Shown(Or(Field(fish, "name"), Str("Unknown"))),
              genus |-> Shown(Or(Field(fish, "genus"), Str(""))),
              family |-> Shown(Or(Field(fish, "family"), Str(""))),
              marine |-> Truthy(Field(fish, "marine")),
              freshwater |-> Truthy(Field(fish, "freshwater")),
              brackish |-> Truthy(Field(fish, "brackish"))]
       IN [kind |-> "cards",
           items |-> [i \in DOMAIN species.items |-> FishCard(species.items[i])]]

\* formatNumber: '0' for a falsy value, else the digits grouped by commas.
formatNumber(num) ==
  IF ~Truthy(num) THEN Str("0")
  ELSE IF num.t = "number" THEN [t |-> "string", s |-> "grouped", n |-> num.n, d |-> num.d]
  ELSE Shown(num)

\* The content renderBiodiversityStats gives the statistics container.
renderBiodiversityStats(stats) ==
  IF ~Truthy(stats) THEN [kind |-> "empty"]
  ELSE [kind |-> "tiles",
        totalSpecies |-> formatNumber(Field(stats, "totalSpecies")),
        totalObservations |-> formatNumber(Field(stats, "totalObservations")),
        totalDatasets |-> formatNumber(Field(stats, "totalDatasets"))]

\* formatDate: the date in the en-US locale.
formatDate(dateString) == [t |-> "string", s |-> "date", of |-> dateString]

\* The content renderBiodiversityObservations gives the observations
\* container.
renderBiodiversityObservations(biodiversity) ==
  LET observations == Field(biodiversity, "observations")
      \* The coordinates line: toFixed(2) of both when both are truthy, a
      \* TypeError when one of them is truthy and not a number.
      ObservationLocation(obs) ==
        LET latitude == Field(obs, "latitude")
            longitude == Field(obs, "longitude")
        IN IF ~(Truthy(latitude) /\ Truthy(longitude)) THEN Undefined
           ELSE IF ToFixed(latitude, 2) = Thrown \/ ToFixed(longitude, 2) = Thrown
           THEN Thrown
           ELSE Obj([latitude |-> ToFixed(latitude, 2),
                     longitude |-> ToFixed(longitude, 2)])
      ObservationItem(obs) ==
        [icon |-> Shown(Or(Field(obs, "icon"), Str("wave"))),
         species |-> Shown(Field(obs, "species")),
         commonName |-> IF Truthy(Field(obs, "commonName"))
                        THEN Shown(Field(obs, "commonName")) ELSE Undefined,
         date |-> IF Truthy(Field(obs, "date"))
                  THEN formatDate(Field(obs, "date")) ELSE Undefined,
         location |-> ObservationLocation(obs)]
  IN IF ~Truthy(biodiversity) \/ ~Truthy(observations) \/ IsEmptyList(observations)
     THEN [kind |-> "placeholder", text |-> "No biodiversity observations available"]
     ELSE IF CardsThrow(observations) THEN Thrown
     ELSE IF \E i \in DOMAIN observations.items :
               ObservationLocation(observations.items[i]) = Thrown
     THEN Thrown
     ELSE [kind |-> "cards",
           items |-> [i \in DOMAIN observations.items |->
                        ObservationItem(observations.items[i])]]

\* The content renderOceanWeather gives the weather container.
renderOceanWeather(weatherData) ==
  IF ~Truthy(weatherData) \/ IsEmptyList(weatherData)
  THEN [kind |-> "placeholder", text |-> "No weather data available"]
  ELSE IF CardsThrow(weatherData) THEN Thrown
  ELSE LET WeatherCard(weather) ==
             LET current == Field(weather, "current")
             IN [icon |-> Shown(Or(Field(weather, "icon"), Str("wave"))),
                 name |-> Shown(Or(Or(Field(weather, "name"),
                                      Field(Field(weather, "location"), "name")),
                                   Str("Unknown Location"))),
                 waveHeight |-> Shown(Or(Field(current, "waveHeight"), Str("N/A"))),
                 waveHeightUnit |-> Shown(Or(Field(current, "waveHeightUnit"), Str("m"))),
                 wavePeriod |-> Shown(Or(Field(current, "wavePeriod"), Str("N/A"))),
                 wavePeriodUnit |-> Shown(Or(Field(current, "wavePeriodUnit"), Str("s"))),
                 windWaveHeight |-> Shown(Or(Field(current, "windWaveHeight"), Str("N/A"))),
                 condition |-> IF Truthy(Field(current, "condition"))
                               THEN Shown(Field(current, "condition")) ELSE Undefined]
       IN [kind |-> "cards",
           items |-> [i \in DOMAIN weatherData.items |->
                        WeatherCard(weatherData.items[i])]]

\* The page before any load: the markup of index.html, with the error banner
\* and the dashboard not yet given their class 'visible'. loads holds the
\* initializeDashboard calls in flight, each with its number in the order of
\* the starts; event, lastData and lastMessage record how the latest load to
\* start or finish went, and newest what the four containers held when the
\* most recently started load finished.
InitialPage ==
  [loading |-> "initial", errorText |-> "", errorVisible |-> FALSE,
   dashboardVisible |-> FALSE,
   fish |-> [kind |-> "initial"], stats |-> [kind |-> "initial"],
   bio |-> [kind |-> "initial"], weather |-> [kind |-> "initial"],
   lastUpdate |-> "initial", loads |-> <<>>, startupDone |-> FALSE,
   triggers |-> 0, fetches |-> 0,
   event |-> "none", lastData |-> Undefined, lastMessage |-> "",
   newest |-> <<>>]

showLoading(p) == [p EXCEPT !.loading = "block", !.dashboardVisible = FALSE]
hideLoading(p) == [p EXCEPT !.loading = "none"]
showDashboard(p) == [p EXCEPT !.dashboardVisible = TRUE]
showError(p, message) ==
  [p EXCEPT !.errorText = "Error: " \o message, !.errorVisible = TRUE]
clearError(p) == [p EXCEPT !.errorText = "", !.errorVisible = FALSE]
updateTimestamp(p) == [p EXCEPT !.lastUpdate = "time"]

\* The local dataset of showFallbackData.
defaultFish ==
  Arr(<< Obj([name |-> Str("Blue Whale"), genus |-> Str("Balaenoptera"),
              family |-> Str("Balaenopteridae"), icon |-> Str("whale"),
              marine |-> Num(1)]),
         Obj([name |-> Str("Clownfish"), genus |-> Str("Amphiprion"),
              family |-> Str("Pomacentridae"), icon |-> Str("fish"),
              marine |-> Num(1)]),
         Obj([name |-> Str("Sea Turtle"), genus |-> Str("Chelonia"),
              family |-> Str("Cheloniidae"), icon |-> Str("turtle"),
              marine |-> Num(1)]) >>)

defaultStats ==
  Obj([totalSpecies |-> Num(234567), totalObservations |-> Num(123456789),
       totalDatasets |-> Num(3251)])

defaultWeather ==
  Arr(<< Obj([name |-> Str("San Francisco Bay"), icon |-> Str("wave"),
              current |-> Obj([waveHeight |-> FixedText(15, 1),
                               waveHeightUnit |-> Str("m"),
                               wavePeriod |-> FixedText(82, 1),
                               wavePeriodUnit |-> Str("s"),
                               windWaveHeight |-> FixedText(9, 1),
                               condition |-> Str("Light")])]),
         Obj([name |-> Str("Great Barrier Reef"), icon |-> Str("reef fish"),
              current |-> Obj([waveHeight |-> FixedText(12, 1),
                               waveHeightUnit |-> Str("m"),
                               wavePeriod |-> FixedText(75, 1),
                               wavePeriodUnit |-> Str("s"),
                               windWaveHeight |-> FixedText(6, 1),
                               condition |-> Str("Calm")])]) >>)

\* showFallbackData that leaves the dashboard hidden.
showFallbackData_DashboardHidden(p) ==
  [p EXCEPT !.fish = renderFishSpecies(defaultFish),
            !.stats = renderBiodiversityStats(defaultStats),
            !.weather = renderOceanWeather(defaultWeather)]

showFallbackData(p) ==
  showDashboard([p EXCEPT !.fish = renderFishSpecies(defaultFish),
                          !.stats = renderBiodiversityStats(defaultStats),
                          !.weather = renderOceanWeather(defaultWeather)])

\* Lines 40-44: the four render calls in order; a call that throws leaves
\* its container and those of the calls after it as they were.
RenderSections(p, data) ==
  IF data.t \in {"undefined", "null"} THEN [page |-> p, thrown |-> TRUE]
  ELSE LET fish == renderFishSpecies(Field(data, "fishSpecies"))
           stats == renderBiodiversityStats(Field(data, "stats"))
           bio == renderBiodiversityObservations(Field(data, "biodiversity"))
           weather == renderOceanWeather(Field(data, "oceanWeather"))
           p1 == [p EXCEPT !.fish = fish]
           p2 == [p1 EXCEPT !.stats = stats]
           p3 == [p2 EXCEPT !.bio = bio]
           p4 == [p3 EXCEPT !.weather = weather]
       IN IF fish = Thrown THEN [page |-> p, thrown |-> TRUE]
          ELSE IF bio = Thrown THEN [page |-> p2, thrown |-> TRUE]
          ELSE IF weather = Thrown THEN [page |-> p3, thrown |-> TRUE]
          ELSE [page |-> p4, thrown |-> FALSE]

\* The request-level failure of a load: the catch block (lines 51-58), with
\* its message.
Fails(p, message) ==
  [showFallbackData(hideLoading(showError(p, message))) EXCEPT
     !.event = "failed", !.lastMessage = message, !.lastData = Undefined]

\* Lines 35-58 for a parsed response body.
OnResult(p, result) ==
  IF result.t \in {"undefined", "null"} THEN Fails(p, "TypeError")
  ELSE IF ~Truthy(Field(result, "success"))
  THEN Fails(p, Shown(Or(Field(result, "error"), Str("Failed to fetch data"))).s)
  ELSE LET data == Field(result, "data")
           r == RenderSections(p, data)
       IN IF r.thrown
          THEN [Fails(r.page, "TypeError") EXCEPT
                  !.event = "render failed", !.lastData = data]
          ELSE [showDashboard(hideLoading(updateTimestamp(r.page))) EXCEPT
                  !.event = "rendered", !.lastData = data]

\* Dashboard payloads a response may carry: what the server sends with every
\* upstream down; empty sections and no statistics; text with markup and a
\* character reference, and an empty wave height; an observation whose
\* coordinates are text.
DashboardPayloads ==
  LET PayloadFallbacks ==
        Obj([fishSpecies |-> getDefaultFishData, biodiversity |-> getDefaultBiodiversityData,
             oceanWeather |-> getDefaultMultiLocationData, stats |-> getDefaultSpeciesStats])

      PayloadEmpty ==
        Obj([fishSpecies |-> Arr(<<>>),
             biodiversity |-> Obj([total |-> Num(0), observations |-> Arr(<<>>),
                                   source |-> Str("OBIS API")]),
             oceanWeather |-> Arr(<<>>)])

      PayloadMarkup ==
        Obj([fishSpecies |->
               Arr(<< Obj([id |-> Num(7), name |-> Str("Cod"), genus |-> Str("Gadus"),
                           family |-> Html(<<Piece("<i>", ""), Piece("Gadidae", "Gadidae"),
                                           Piece("</i>", "")>>),
                           marine |-> Num(1)]) >>),
             biodiversity |->
               Obj([total |-> Num(1),
                    observations |->
                      Arr(<< Obj([species |-> Html(<<Piece("Fucus ", "Fucus "), Piece("&amp;", "&"),
                                        Piece(" Laminaria", " Laminaria")>>)]) >>)]),
             oceanWeather |->
               Arr(<< Obj([name |-> Str("Reef"),
                           current |-> Obj([waveHeight |-> Str("")])]) >>),
             stats |-> getDefaultSpeciesStats])

      PayloadTextCoordinates ==
        Obj([fishSpecies |-> getDefaultFishData,
             biodiversity |->
               Obj([observations |->
                      Arr(<< Obj([species |-> Str("Orcinus orca"),
                                  latitude |-> Str("37.5"), longitude |-> Str("-122.4")]) >>)]),
             oceanWeather |-> getDefaultMultiLocationData,
             stats |-> getDefaultSpeciesStats])
  IN {PayloadFallbacks, PayloadEmpty, PayloadMarkup, PayloadTextCoordinates}

\* A body response.json() cannot parse.
InvalidJson == [t |-> "invalid json"]

\* How a fetch settles: rejected (no network), or a response; status 500 is
\* what the server's catch blocks send.
FetchOutcomes ==
  LET \* The bodies of a response with status 200.
      ResponseBodies ==
        {InvalidJson, Obj([success |-> Bool(TRUE)]),
         Obj([success |-> Bool(FALSE), error |-> Str("quota exceeded")]),
         Obj([success |-> Bool(FALSE)])}
        \cup {Obj([success |-> Bool(TRUE), data |-> d]) : d \in DashboardPayloads}
  IN {[arrived |-> FALSE, status |-> 0, body |-> Undefined],
      [arrived |-> TRUE, status |-> 500,
       body |-> Obj([success |-> Bool(FALSE), error |-> Str("message")])]}
     \cup {[arrived |-> TRUE, status |-> 200, body |-> b] : b \in ResponseBodies}

\* A sequence without its i-th element.
RemoveAt(seq, i) == [k \in 1..(Len(seq) - 1) |-> IF k < i THEN seq[k] ELSE seq[k + 1]]

\* Lines 22-27: showLoading, clearError and the fetch.
Started(p) ==
  [clearError(showLoading(p)) EXCEPT
     !.loads = Append(@, [pc |-> "fetch", body |-> Undefined,
                          id |-> p.triggers + 1]),
     !.triggers = @ + 1, !.fetches = @ + 1, !.event = "started"]

\* The page q as load number id leaves it when it ends: what the containers
\* hold is recorded when no load was started after this one.
Finished(q, id) ==
  IF id = q.triggers
  THEN [q EXCEPT !.newest = <<q.fish, q.stats, q.bio, q.weather>>]
  ELSE q

\* retryWithBackoff before it is called. attempt, maxAttempts and delay are
\* its loop variables, first the delay it was called with; calls counts the
\* calls of fn, failures those that rejected, outstanding those not yet
\* settled; waits lists the timers it has set.
RetryIdle ==
  [pc |-> "idle", attempt |-> 0, maxAttempts |-> 0, delay |-> 0, first |-> 0,
   calls |-> 0, failures |-> 0, outstanding |-> 0, waits |-> <<>>,
   outcome |-> Undefined]

\* What the k-th call of fn resolves with, and what it rejects with.
FnResult(k) == Obj([result |-> Num(k)])
FnError(k) == Obj([error |-> Num(k)])

\* The loop test and the call of fn at the head of an iteration.
Iterate(r) ==
  IF r.attempt <= r.maxAttempts
  THEN [r EXCEPT !.pc = "calling", !.calls = @ + 1, !.outstanding = @ + 1]
  ELSE [r EXCEPT !.pc = "resolved", !.outcome = Undefined]

\* The delay left as it was after a wait.
NextDelay_Unchanged(delay) == delay

\* delay *= 2
NextDelay(delay) == delay * 2

-----------------------------------------------------------------------------
(* One request: a direct call of an adapter operation, or an HTTP request   *)
(* to a route of the server, and the outbound GETs it waits for.            *)

VARIABLES
  phase,        \* "idle", "running" (GETs in flight) or "done"
  req,          \* the request being served
  calls,        \* the adapter calls the request made, in call order
  sub,          \* the per-location calls of getOceanDataMultipleLocations
  inverted,     \* a call settled while a call made before it was pending
  subInverted,  \* the same, among the per-location calls
  gets,         \* outbound GETs issued
  response,     \* the HTTP response sent, status 0 while there is none
  page,         \* the page of public/app.js and its loads in flight
  retry         \* a call of retryWithBackoff

vars == <<phase, req, calls, sub, inverted, subInverted, gets, response, page, retry>>

\* The variables of the server.
serverVars == <<phase, req, calls, sub, inverted, subInverted, gets, response>>

NoRequest == [kind |-> "none"]
NoResponse == [status |-> 0, body |-> Undefined]

Pending(op, args) ==
  [op |-> op, args |-> args, st |-> "pending", live |-> FALSE, value |-> Undefined]

Settled(call, s) == [call EXCEPT !.st = s.st, !.live = s.live, !.value = s.value]

\* The per-location calls getOceanDataMultipleLocations makes.
LocationCalls ==
  [i \in DOMAIN locations |->
     Pending("getOceanWeather", <<locations[i].lat, locations[i].lon>>)]

\* The bodies the upstream of an operation may answer with.
Bodies(op) ==
  CASE op \in {"getFishSpecies", "getFishByFamily"} -> FishBodies
    [] op \in {"getBiodiversityObservations", "getObservationsByArea"} -> ObsBodies
    [] op = "getSpeciesStats" -> StatsBodies
    [] op = "getOceanWeather" -> MarineBodies
    [] OTHER -> TemperatureBodies

Outcomes(op) == Failures \cup {Response(b) : b \in Bodies(op)}

\* The settlement of a single-GET adapter call for an outcome of its GET.
RunAdapter(call, out) ==
  CASE call.op = "getFishSpecies" -> getFishSpecies(call.args[1], out)
    [] call.op = "getFishByFamily" -> getFishByFamily(call.args[1], out)
    [] call.op = "getBiodiversityObservations" ->
         getBiodiversityObservations(call.args[1], out)
    [] call.op = "getSpeciesStats" -> getSpeciesStats(out)
    [] call.op = "getObservationsByArea" ->
         getObservationsByArea(call.args[1], call.args[2], call.args[3],
                               call.args[4], out)
    [] call.op = "getOceanWeather" -> getOceanWeather(call.args[1], call.args[2], out)
    [] OTHER -> getWaterTemperature(call.args[1], call.args[2], out)

\* new Date().toISOString()
Timestamp == Str("iso-8601")

\* res.status(500).json({ success: false, error: error.message, timestamp })
ErrorEnvelope ==
  [status |-> 500,
   body |-> Obj([success |-> Bool(FALSE), error |-> Str("message"), timestamp |-> Timestamp])]

Json(body) == [status |-> 200, body |-> Obj(body)]

\* The dashboard data with the results of the second and fourth call
\* destructured in each other's place.
DashboardData_Swapped(cs) ==
  Obj([fishSpecies |-> cs[1].value, biodiversity |-> cs[4].value,
       oceanWeather |-> cs[3].value, stats |-> cs[2].value])

\* The data assembled from the four calls of the dashboard route.
DashboardData(cs) ==
  Obj([fishSpecies |-> cs[1].value, biodiversity |-> cs[2].value,
       oceanWeather |-> cs[3].value, stats |-> cs[4].value])

\* The success response of a route, once its adapter calls have resolved.
SuccessEnvelope(r, cs) ==
  CASE r.route = "/api/fish-species" ->
         Json([success |-> Bool(TRUE), data |-> cs[1].value,
               source |-> Str("FishBase API"), timestamp |-> Timestamp])
    [] r.route = "/api/fish-species/:family" ->
         Json([success |-> Bool(TRUE), family |-> r.family, data |-> cs[1].value,
               source |-> Str("FishBase API"), timestamp |-> Timestamp])
    [] r.route = "/api/biodiversity" ->
         Json([timestamp |-> Timestamp] @@ cs[1].value.f @@ [success |-> Bool(TRUE)])
    [] r.route = "/api/species-stats" ->
         Json([success |-> Bool(TRUE), data |-> cs[1].value,
               source |-> Str("OBIS API"), timestamp |-> Timestamp])
    [] r.route \in {"/api/ocean-weather", "/api/water-temperature"} ->
         Json([success |-> Bool(TRUE), data |-> cs[1].value, timestamp |-> Timestamp])
    [] r.route = "/api/ocean-data-locations" ->
         Json([success |-> Bool(TRUE), data |-> cs[1].value,
               source |-> Str("Open-Meteo Marine API"), timestamp |-> Timestamp])
    [] OTHER ->
         Json([success |-> Bool(TRUE), data |-> DashboardData(cs),
               sources |-> Arr(<<Str("FishBase API"), Str("OBIS API"),
                                 Str("Open-Meteo Marine API")>>),
               timestamp |-> Timestamp])

\* The awaited promise of a handler (a single call, or Promise.all of the
\* dashboard's four) is settled: some call rejected, or all resolved.
AwaitDone(cs) ==
  \/ \E i \in DOMAIN cs : cs[i].st = "rejected"
  \/ \A i \in DOMAIN cs : cs[i].st = "resolved"

\* The handler's continuation after its await: the catch block's envelope
\* when a call rejected, the success envelope otherwise.
HandlerResponse(r, cs) ==
  IF \E i \in DOMAIN cs : cs[i].st = "rejected" THEN ErrorEnvelope
  ELSE SuccessEnvelope(r, cs)

\* What follows the settling of calls: an HTTP handler that has not answered
\* yet answers as soon as its await is done.
Continue(cs, ss) ==
  /\ phase' = IF /\ \A i \in DOMAIN cs : cs[i].st # "pending"
                 /\ \A j \in DOMAIN ss : ss[j].st # "pending"
              THEN "done" ELSE "running"
  /\ response' = IF req.kind = "http" /\ response = NoResponse /\ AwaitDone(cs)
                 THEN HandlerResponse(req, cs) ELSE response

Init ==
  /\ phase = "idle"
  /\ req = NoRequest
  /\ calls = <<>>
  /\ sub = <<>>
  /\ inverted = FALSE
  /\ subInverted = FALSE
  /\ gets = 0
  /\ response = NoResponse
  /\ page = InitialPage
  /\ retry = RetryIdle

\* A handler or caller starts: it makes its adapter calls, each of which
\* issues its GET (three for getOceanDataMultipleLocations) before the first
\* await gives control back.
Begin(r, cs) ==
  /\ req' = r
  /\ calls' = cs
  /\ sub' = IF \E i \in DOMAIN cs : cs[i].op = "getOceanDataMultipleLocations"
            THEN LocationCalls ELSE <<>>
  /\ gets' = Cardinality({i \in DOMAIN cs :
                            cs[i].st = "pending"
                            /\ cs[i].op # "getOceanDataMultipleLocations"}) + Len(sub')
  /\ phase' = IF \A i \in DOMAIN cs : cs[i].st # "pending" THEN "done" ELSE "running"
  /\ UNCHANGED <<inverted, subInverted, response, page, retry>>

Call(op, args) ==
  [kind |-> "call", route |-> op, query |-> args, family |-> Undefined]

\* The GET routes, in the order server.js registers them; a path is the
\* sequence of its segments.
routes ==
  << [handler |-> "/api/health", pattern |-> <<"api", "health">>],
     [handler |-> "/api/fish-species", pattern |-> <<"api", "fish-species">>],
     [handler |-> "/api/fish-species/:family",
      pattern |-> <<"api", "fish-species", ":family">>],
     [handler |-> "/api/biodiversity", pattern |-> <<"api", "biodiversity">>],
     [handler |-> "/api/species-stats", pattern |-> <<"api", "species-stats">>],
     [handler |-> "/api/ocean-weather", pattern |-> <<"api", "ocean-weather">>],
     [handler |-> "/api/water-temperature", pattern |-> <<"api", "water-temperature">>],
     [handler |-> "/api/ocean-data-locations",
      pattern |-> <<"api", "ocean-data-locations">>],
     [handler |-> "/api/dashboard", pattern |-> <<"api", "dashboard">>] >>

\* A pattern matches a path segment by segment; the parameter :family takes
\* any one segment.
Matches_NoParameters(pattern, path) == pattern = path

Matches(pattern, path) ==
  /\ Len(pattern) = Len(path)
  /\ \A i \in DOMAIN pattern : pattern[i] = ":family" \/ pattern[i] = path[i]

\* The handler that answers a GET of a path: the first route that matches,
\* the 404 handler when none does.
Router(path) ==
  IF \E i \in DOMAIN routes : Matches(routes[i].pattern, path)
  THEN LET first == CHOOSE i \in DOMAIN routes :
                      /\ Matches(routes[i].pattern, path)
                      /\ \A j \in 1..(i - 1) : ~Matches(routes[j].pattern, path)
       IN routes[first].handler
  ELSE "404"

\* The path of a request a route handler serves.
RoutePath(route, family) ==
  LET r == CHOOSE i \in DOMAIN routes : routes[i].handler = route
  IN [k \in DOMAIN routes[r].pattern |->
        IF routes[r].pattern[k] = ":family" THEN family.s ELSE routes[r].pattern[k]]

Http(route, query, family) ==
  [kind |-> "http", route |-> route, query |-> query, family |-> family,
   path |-> RoutePath(route, family)]

\* Paths a client asks for: routes, unknown paths, and paths one segment
\* longer or shorter than a route.
RequestPaths ==
  { <<"api", "health">>, <<"api", "dashboard">>, <<"api", "fish-species", "Gadidae">>,
    <<"api">>, <<"api", "whales">>, <<"api", "dashboard", "today">>,
    <<"api", "fish-species", "Gadidae", "eggs">>, <<"health">> }

\* res.json of the health route.
HealthResponse ==
  Json([status |-> Str("ok"),
        message |-> Str("Tidepool Marine Data Dashboard is running"),
        timestamp |-> Timestamp])

\* req.path: the segments of a path, each after a slash.
RECURSIVE PathText(_)
PathText(path) ==
  IF path = <<>> THEN "" ELSE "/" \o Head(path) \o PathText(Tail(path))

\* res.status(404).json of the 404 handler.
NotFoundResponse(path) ==
  [status |-> 404,
   body |-> Obj([success |-> Bool(FALSE), error |-> Str("Not found"),
                 path |-> Str(PathText(path))])]

\* The error middleware's answer without its timestamp.
ErrorMiddlewareResponse_NoTimestamp ==
  [status |-> 500,
   body |-> Obj([success |-> Bool(FALSE), error |-> Str("Internal server error"),
                 message |-> Str("message")])]

\* res.status(500).json of the error middleware.
ErrorMiddlewareResponse ==
  [status |-> 500,
   body |-> Obj([success |-> Bool(FALSE), error |-> Str("Internal server error"),
                 message |-> Str("message"), timestamp |-> Timestamp])]

\* A request that is answered without an adapter call.
Answer(r, resp) ==
  /\ phase = "idle"
  /\ req' = r
  /\ response' = resp
  /\ phase' = "done"
  /\ UNCHANGED <<calls, sub, inverted, subInverted, gets, page, retry>>

\* Coordinates a caller passes: none, (40.7, -74.0), (0, 0), (37.5, -122.4),
\* text, and null.
CoordArgs ==
  {<<Undefined, Undefined>>, <<Dec(407, 1), Dec(-740, 1)>>, <<Num(0), Num(0)>>,
   <<Dec(375, 1), Dec(-1224, 1)>>, <<Str("north"), Str("west")>>, <<Null, Null>>}

(* Direct calls of the exported adapter operations *)

CallGetFishSpecies ==
  \E limit \in {Undefined, Num(3), Num(10)} :
    /\ phase = "idle"
    /\ Begin(Call("getFishSpecies", <<limit>>), <<Pending("getFishSpecies", <<limit>>)>>)

CallGetFishByFamily ==
  \E family \in {Undefined, Str("Salmonidae"), Str("InvalidFamily123")} :
    /\ phase = "idle"
    /\ Begin(Call("getFishByFamily", <<family>>),
          <<Pending("getFishByFamily", <<family>>)>>)

\* With options null the parameters cannot be built: the catch block returns
\* the default and no GET is issued.
CallGetBiodiversityObservations ==
  \E options \in {Undefined, Obj([limit |-> Num(5)]), Null} :
    LET call == Pending("getBiodiversityObservations", <<options>>)
    IN /\ phase = "idle"
       /\ Begin(Call("getBiodiversityObservations", <<options>>),
             << IF BiodiversityParamsThrow(options)
                THEN Settled(call, Resolved(getDefaultBiodiversityData, FALSE))
                ELSE call >>)

CallGetSpeciesStats ==
  /\ phase = "idle"
  /\ Begin(Call("getSpeciesStats", <<>>), <<Pending("getSpeciesStats", <<>>)>>)

CallGetObservationsByArea ==
  \E box \in {<<Num(-30), Num(-10), Num(-180), Num(-150)>>,
              <<Num(0), Num(0), Num(0), Num(0)>>} :
    /\ phase = "idle"
    /\ Begin(Call("getObservationsByArea", box), <<Pending("getObservationsByArea", box)>>)

CallGetOceanWeather ==
  \E c \in CoordArgs :
    /\ phase = "idle"
    /\ Begin(Call("getOceanWeather", c), <<Pending("getOceanWeather", c)>>)

CallGetWaterTemperature ==
  \E c \in CoordArgs :
    /\ phase = "idle"
    /\ Begin(Call("getWaterTemperature", c), <<Pending("getWaterTemperature", c)>>)

CallGetOceanDataMultipleLocations ==
  /\ phase = "idle"
  /\ Begin(Call("getOceanDataMultipleLocations", <<>>),
        <<Pending("getOceanDataMultipleLocations", <<>>)>>)

(* Route handlers *)

FishSpeciesRoute ==
  \E q \in LimitQueries :
    LET limit == Or(parseInt(q), Num(10))
    IN /\ phase = "idle"
       /\ Begin(Http("/api/fish-species", <<q>>, Undefined),
             <<Pending("getFishSpecies", <<limit>>)>>)

FishByFamilyRoute ==
  \E family \in {Str("Salmonidae"), Str("InvalidFamily123")} :
    /\ phase = "idle"
    /\ Begin(Http("/api/fish-species/:family", <<>>, family),
          <<Pending("getFishByFamily", <<family>>)>>)

BiodiversityRoute ==
  \E q \in LimitQueries :
    LET limit == Or(parseInt(q), Num(20))
    IN /\ phase = "idle"
       /\ Begin(Http("/api/biodiversity", <<q>>, Undefined),
             <<Pending("getBiodiversityObservations", <<Obj([limit |-> limit])>>)>>)

SpeciesStatsRoute ==
  /\ phase = "idle"
  /\ Begin(Http("/api/species-stats", <<>>, Undefined), <<Pending("getSpeciesStats", <<>>)>>)

OceanWeatherRoute ==
  \E qlat \in CoordQueries, qlon \in CoordQueries :
    LET lat == Or(parseFloat(qlat), Dec(375, 1))
        lon == Or(parseFloat(qlon), Dec(-1224, 1))
    IN /\ phase = "idle"
       /\ Begin(Http("/api/ocean-weather", <<qlat, qlon>>, Undefined),
             <<Pending("getOceanWeather", <<lat, lon>>)>>)

WaterTemperatureRoute ==
  \E qlat \in CoordQueries, qlon \in CoordQueries :
    LET lat == Or(parseFloat(qlat), Dec(375, 1))
        lon == Or(parseFloat(qlon), Dec(-1224, 1))
    IN /\ phase = "idle"
       /\ Begin(Http("/api/water-temperature", <<qlat, qlon>>, Undefined),
             <<Pending("getWaterTemperature", <<lat, lon>>)>>)

OceanDataLocationsRoute ==
  /\ phase = "idle"
  /\ Begin(Http("/api/ocean-data-locations", <<>>, Undefined),
        <<Pending("getOceanDataMultipleLocations", <<>>)>>)

DashboardRoute ==
  /\ phase = "idle"
  /\ Begin(Http("/api/dashboard", <<>>, Undefined),
        << Pending("getFishSpecies", <<Num(5)>>),
           Pending("getBiodiversityObservations", <<Obj([limit |-> Num(5)])>>),
           Pending("getOceanDataMultipleLocations", <<>>),
           Pending("getSpeciesStats", <<>>) >>)

HealthRoute ==
  \E p \in RequestPaths :
    /\ Router(p) = "/api/health"
    /\ Answer(Http("/api/health", <<>>, Undefined), HealthResponse)

\* A GET that no route matches falls through to the 404 handler.
NotFound ==
  \E p \in RequestPaths :
    /\ Router(p) = "404"
    /\ Answer([kind |-> "http", route |-> "404", query |-> <<>>,
                family |-> Undefined, path |-> p],
               NotFoundResponse(p))

\* A request whose JSON body express.json() cannot parse never reaches a
\* route: the error is handed to the error middleware.
ErrorMiddleware ==
  \E p \in RequestPaths :
    Answer([kind |-> "http", route |-> "error middleware", query |-> <<>>,
            family |-> Undefined, path |-> p],
           ErrorMiddlewareResponse)

(* Completion of outbound GETs *)

\* The GET of a single-GET adapter call settles; the adapter's continuation
\* and, when its await is done, the handler's run with it.
GetSettles ==
  \E i \in DOMAIN calls :
    /\ phase = "running"
    /\ calls[i].st = "pending"
    /\ calls[i].op # "getOceanDataMultipleLocations"
    /\ \E out \in Outcomes(calls[i].op) :
         /\ calls' = [calls EXCEPT ![i] = Settled(@, RunAdapter(@, out))]
         /\ inverted' = (inverted \/ \E j \in 1..(i - 1) : calls[j].st = "pending")
         /\ Continue(calls', sub)
    /\ UNCHANGED <<req, sub, subInverted, gets, page, retry>>

\* The GET of a per-location call settles; when Promise.all over the three
\* is settled, getOceanDataMultipleLocations returns.
LocationGetSettles ==
  \E j \in DOMAIN sub :
    /\ phase = "running"
    /\ sub[j].st = "pending"
    /\ \E out \in Outcomes("getOceanWeather") :
         LET m == CHOOSE i \in DOMAIN calls :
                    calls[i].op = "getOceanDataMultipleLocations"
             ss == [sub EXCEPT ![j] = Settled(@, RunAdapter(@, out))]
             joins == calls[m].st = "pending" /\ AwaitDone(ss)
         IN /\ sub' = ss
            /\ subInverted' = (subInverted \/ \E k \in 1..(j - 1) : sub[k].st = "pending")
            /\ calls' = IF joins
                        THEN [calls EXCEPT ![m] = Settled(@, MultiLocationJoin(ss))]
                        ELSE calls
            /\ inverted' = (inverted \/ (joins /\ \E k \in 1..(m - 1) : calls[k].st = "pending"))
            /\ Continue(calls', ss)
    /\ UNCHANGED <<req, gets, page, retry>>

Next ==
  \/ CallGetFishSpecies
  \/ CallGetFishByFamily
  \/ CallGetBiodiversityObservations
  \/ CallGetSpeciesStats
  \/ CallGetObservationsByArea
  \/ CallGetOceanWeather
  \/ CallGetWaterTemperature
  \/ CallGetOceanDataMultipleLocations
  \/ FishSpeciesRoute
  \/ FishByFamilyRoute
  \/ BiodiversityRoute
  \/ SpeciesStatsRoute
  \/ OceanWeatherRoute
  \/ WaterTemperatureRoute
  \/ OceanDataLocationsRoute
  \/ DashboardRoute
  \/ HealthRoute
  \/ NotFound
  \/ ErrorMiddleware
  \/ GetSettles
  \/ LocationGetSettles

Spec == Init /\ [][Next]_vars

-----------------------------------------------------------------------------
(* The page: loads of the dashboard and the retry helper                    *)

\* A load may start while the helper has not been called, and the helper may
\* be called on a page that has started no load: the two share no state.
CanLoad == retry = RetryIdle /\ page.triggers < MaxLoads

\* The timeout of 500 ms set on DOMContentLoaded fires.
StartupLoad ==
  /\ CanLoad
  /\ ~page.startupDone
  /\ page' = [Started(page) EXCEPT !.startupDone = TRUE]
  /\ UNCHANGED <<serverVars, retry>>

\* The interval of 5 minutes set on DOMContentLoaded fires; its first tick
\* comes after the timeout of 500 ms.
PeriodicLoad ==
  /\ CanLoad
  /\ page.startupDone
  /\ page' = Started(page)
  /\ UNCHANGED <<serverVars, retry>>

\* window.refreshDashboard() is called.
ManualRefresh ==
  /\ CanLoad
  /\ page' = Started(page)
  /\ UNCHANGED <<serverVars, retry>>

\* The fetch of a load in flight settles (lines 27-31): the catch block when
\* it was rejected or the status is not 2xx, else the wait for
\* response.json().
FetchSettles ==
  \E i \in DOMAIN page.loads, out \in FetchOutcomes :
    LET rest == [page EXCEPT !.loads = RemoveAt(@, i)]
        id == page.loads[i].id
    IN /\ page.loads[i].pc = "fetch"
       /\ page' = IF ~out.arrived THEN Finished(Fails(rest, "Failed to fetch"), id)
                  ELSE IF out.status \notin 200..299
                  THEN Finished(Fails(rest, "API error: " \o ToString(out.status)), id)
                  ELSE [page EXCEPT !.loads[i] = [pc |-> "json", body |-> out.body,
                                                  id |-> id]]
       /\ UNCHANGED <<serverVars, retry>>

\* response.json() of a load in flight settles (lines 33-58).
JsonSettles ==
  \E i \in DOMAIN page.loads :
    LET rest == [page EXCEPT !.loads = RemoveAt(@, i)]
        body == page.loads[i].body
    IN /\ page.loads[i].pc = "json"
       /\ page' = Finished(IF body = InvalidJson THEN Fails(rest, "Unexpected token")
                           ELSE OnResult(rest, body),
                           page.loads[i].id)
       /\ UNCHANGED <<serverVars, retry>>

\* retryWithBackoff(fn, maxAttempts, delay) is called: the first iteration
\* runs up to its call of fn.
RetryCalled ==
  \E maxArg \in {Undefined} \cup {Num(k) : k \in 1..MaxAttemptsArg},
     delayArg \in {Undefined, Num(100)} :
    /\ retry = RetryIdle
    /\ page = InitialPage
    /\ retry' = Iterate([RetryIdle EXCEPT
                           !.attempt = 1,
                           !.maxAttempts = Default(maxArg, Num(3)).n,
                           !.delay = Default(delayArg, Num(1000)).n,
                           !.first = Default(delayArg, Num(1000)).n])
    /\ UNCHANGED <<serverVars, page>>

\* The call of fn in flight resolves: its result is returned.
FnResolves ==
  /\ retry.pc = "calling"
  /\ retry' = [retry EXCEPT !.pc = "resolved", !.outstanding = @ - 1,
                             !.outcome = FnResult(retry.calls)]
  /\ UNCHANGED <<serverVars, page>>

\* The call of fn in flight rejects: the error is thrown on at the last
\* attempt, else a timer of delay is set.
FnRejects ==
  /\ retry.pc = "calling"
  /\ retry' = IF retry.attempt = retry.maxAttempts
               THEN [retry EXCEPT !.pc = "rejected", !.outstanding = @ - 1,
                                  !.failures = @ + 1,
                                  !.outcome = FnError(retry.calls)]
               ELSE [retry EXCEPT !.pc = "waiting", !.outstanding = @ - 1,
                                  !.failures = @ + 1,
                                  !.waits = Append(@, retry.delay)]
  /\ UNCHANGED <<serverVars, page>>

\* The timer fires: the delay doubles and the next iteration starts.
RetryTimerFires ==
  /\ retry.pc = "waiting"
  /\ retry' = Iterate([retry EXCEPT !.delay = NextDelay(@), !.attempt = @ + 1])
  /\ UNCHANGED <<serverVars, page>>

ClientNext ==
  \/ StartupLoad
  \/ PeriodicLoad
  \/ ManualRefresh
  \/ FetchSettles
  \/ JsonSettles
  \/ RetryCalled
  \/ FnResolves
  \/ FnRejects
  \/ RetryTimerFires

ClientSpec == Init /\ [][ClientNext]_vars

-----------------------------------------------------------------------------
(* Properties                                                              *)

\* Every adapter call of the request, the per-location calls included.
AllCalls == {calls[i] : i \in DOMAIN calls} \cup {sub[j] : j \in DOMAIN sub}

\* The calls that issue a GET of their own.
GetCalls == {c \in AllCalls : c.op # "getOceanDataMultipleLocations"}

\* A call that settled without using an upstream body: its GET failed
\* (network failure, timeout, non-2xx status), or the body was absent, empty
\* or unusable.  Every failed GET settles its call this way.
OnFallbackPath(c) == c.st # "pending" /\ ~c.live

\* The GETs behind a settled call all ended on the fallback path.
UpstreamDown(c) ==
  IF c.op = "getOceanDataMultipleLocations"
  THEN c.st # "pending" /\ \A j \in DOMAIN sub : OnFallbackPath(sub[j])
  ELSE OnFallbackPath(c)

\* A value that is there: not undefined, not null, not the empty string.
Present(v) == v.t \notin {"undefined", "null"} /\ (v.t = "string" => v.s # "")

\* A payload that is there and is not an empty collection.
NonEmptyPayload(v) ==
  /\ v.t \in {"array", "object"}
  /\ v.t = "array" => Len(v.items) > 0
  /\ v.t = "object" => DOMAIN v.f # {}

HasFields(v, fields) == v.t = "object" /\ fields \subseteq DOMAIN v.f

\* The shape the tests of each operation ask of its result.
WellShaped(op, v) ==
  CASE op = "getFishSpecies" ->
         /\ v.t = "array"
         /\ \A i \in DOMAIN v.items :
              HasFields(v.items[i], {"id", "name", "family", "marine", "icon"})
    [] op = "getBiodiversityObservations" ->
         /\ HasFields(v, {"observations", "total"})
         /\ v.f.observations.t = "array"
         /\ Len(v.f.observations.items) > 0
         /\ \A i \in DOMAIN v.f.observations.items :
              HasFields(v.f.observations.items[i], {"species", "icon"})
    [] op = "getSpeciesStats" ->
         HasFields(v, {"totalSpecies", "totalObservations", "totalDatasets"})
    [] op = "getOceanWeather" ->
         /\ HasFields(v, {"location", "current", "daily", "source"})
         /\ HasFields(v.f.current, {"waveHeight", "waveHeightUnit", "condition"})
    [] op = "getWaterTemperature" ->
         /\ HasFields(v, {"location", "current", "daily"})
         /\ HasFields(v.f.current, {"temperature", "unit", "condition"})
    [] op = "getOceanDataMultipleLocations" ->
         /\ v.t = "array"
         /\ \A i \in DOMAIN v.items :
              /\ HasFields(v.items[i], {"name", "current"})
              /\ HasFields(v.items[i].f.current, {"waveHeight"})
    [] OTHER -> v.t = "array"

\* The operations whose catch block returns an empty array.
EmptyOnFailure == {"getFishByFamily", "getObservationsByArea"}

\* C1: for every argument value and every outcome of the GET, the promise an
\* adapter operation returns resolves and never rejects.
C1_NeverRejects == \A c \in AllCalls : c.st # "rejected"

IsDashboard == req.kind = "http" /\ req.route = "/api/dashboard"

\* C3: a dashboard request whose upstream calls all failed is answered with
\* status 200 and success true, and fishSpecies, biodiversity.observations,
\* oceanWeather and stats are non-empty and come from the fallback
\* providers.
C3_DashboardAllDown ==
  (IsDashboard /\ phase = "done" /\ \A c \in GetCalls : OnFallbackPath(c)) =>
    /\ response.status = 200
    /\ response.body.f.success = Bool(TRUE)
    /\ LET data == response.body.f.data.f
       IN /\ DOMAIN data = {"fishSpecies", "biodiversity", "oceanWeather", "stats"}
          /\ NonEmptyPayload(data.fishSpecies)
          /\ \A i \in DOMAIN data.fishSpecies.items :
               data.fishSpecies.items[i].f.id = Num(i)
          /\ NonEmptyPayload(data.biodiversity.f.observations)
          /\ data.biodiversity.f.source = Str("OBIS API (Fallback)")
          /\ Len(data.oceanWeather.items) = 3
          /\ \A i \in DOMAIN data.oceanWeather.items :
               data.oceanWeather.items[i].f.source =
                 Str("Open-Meteo Marine API (Fallback)")
          /\ NonEmptyPayload(data.stats)
          /\ data.stats.f.totalSpecies = Num(234567)

C3_Witness ==
  /\ IsDashboard /\ phase = "done" /\ gets = 6
  /\ \A c \in GetCalls : OnFallbackPath(c)
  /\ response.status = 200

\* The same fields, nested fields included: objects have the same field
\* names and, field by field, the same fields inside; the elements of two
\* arrays have the same fields.
RECURSIVE SameShape(_, _)
SameShape(a, b) ==
  IF a.t = "object" /\ b.t = "object"
  THEN /\ DOMAIN a.f = DOMAIN b.f
       /\ \A k \in DOMAIN a.f : SameShape(a.f[k], b.f[k])
  ELSE IF a.t = "array" /\ b.t = "array"
  THEN \A i \in DOMAIN a.items, j \in DOMAIN b.items :
         SameShape(a.items[i], b.items[j])
  ELSE a.t \notin {"object", "array"} /\ b.t \notin {"object", "array"}

\* What the fallback provider of a call's operation returns.
FallbackValue(c) ==
  CASE c.op = "getFishSpecies" -> getDefaultFishData
    [] c.op = "getBiodiversityObservations" -> getDefaultBiodiversityData
    [] c.op = "getSpeciesStats" -> getDefaultSpeciesStats
    [] c.op = "getOceanWeather" -> getDefaultOceanWeather(c.args[1], c.args[2])
    [] c.op = "getWaterTemperature" -> getDefaultTemperatureData(c.args[1], c.args[2])
    [] c.op = "getOceanDataMultipleLocations" -> getDefaultMultiLocationData
    [] OTHER -> Arr(<<>>)

\* C4: for each adapter operation, the value returned on the live path has
\* the same fields, nested fields included, as the value its fallback
\* provider returns; for getOceanDataMultipleLocations the entries built on
\* the normal path are compared with getDefaultMultiLocationData.
C4_FallbackShapeIsLiveShape ==
  \A c \in AllCalls :
    (c.st = "resolved" /\ c.live) => SameShape(c.value, FallbackValue(c))

\* The four calls of the dashboard, in the order the handler makes them.
DashboardOps ==
  <<"getFishSpecies", "getBiodiversityObservations",
    "getOceanDataMultipleLocations", "getSpeciesStats">>

\* C5: the dashboard handler has its four adapter calls in flight together
\* from its first step (their six GETs issued), answers only once its
\* Promise.all is settled, and, whatever the order of completion, sends as
\* fishSpecies, biodiversity, oceanWeather and stats the results of
\* getFishSpecies, getBiodiversityObservations,
\* getOceanDataMultipleLocations and getSpeciesStats; if a call rejected,
\* the answer is the 500 envelope with success false and no data, and so is
\* the handler's answer to the same calls with any one of them rejected.
C5_DashboardPositional ==
  IsDashboard =>
    /\ gets = 6
    /\ [i \in DOMAIN calls |-> calls[i].op] = DashboardOps
    /\ response.status # 0 => \A i \in DOMAIN calls : calls[i].st # "pending"
    /\ phase = "done" => response.status # 0
    /\ \A i \in DOMAIN calls :
         LET r == HandlerResponse(req, [calls EXCEPT ![i] = Settled(@, Rejected)])
         IN /\ r.status = 500
            /\ r.body.f.success = Bool(FALSE)
            /\ "data" \notin DOMAIN r.body.f
    /\ (\E i \in DOMAIN calls : calls[i].st = "rejected") =>
         \/ response.status = 0
         \/ /\ response.status = 500
            /\ response.body.f.success = Bool(FALSE)
            /\ "data" \notin DOMAIN response.body.f
    /\ response.status = 200 =>
         /\ \A i \in DOMAIN calls : calls[i].st = "resolved"
         /\ response.body.f.success = Bool(TRUE)
         /\ LET data == response.body.f.data.f
                result(op) == calls[CHOOSE i \in DOMAIN calls : calls[i].op = op].value
            IN /\ data.fishSpecies = result("getFishSpecies")
               /\ data.biodiversity = result("getBiodiversityObservations")
               /\ data.oceanWeather = result("getOceanDataMultipleLocations")
               /\ data.stats = result("getSpeciesStats")

\* The dashboard answered after its calls completed in another order than
\* they were made, with a live and a fallback result among them.
C5_Witness ==
  /\ IsDashboard /\ response.status = 200
  /\ inverted
  /\ calls[4].live /\ ~calls[1].live /\ calls[2].live

\* C6: getOceanDataMultipleLocations returns exactly 3 entries for every
\* combination of per-location outcomes and every completion order; entry i
\* carries the name of fixed location i and has current.waveHeight.
C6_ThreeNamedEntries ==
  \A c \in AllCalls :
    (c.op = "getOceanDataMultipleLocations" /\ c.st # "pending") =>
      /\ c.st = "resolved"
      /\ c.value.t = "array"
      /\ Len(c.value.items) = 3
      /\ \A i \in 1..3 :
           /\ c.value.items[i].f.name = Str(locations[i].name)
           /\ "waveHeight" \in DOMAIN c.value.items[i].f.current.f
           /\ Present(c.value.items[i].f.current.f.waveHeight)

\* The three GETs completed in another order than they were issued, one of
\* them failing and one answering.
C6_Witness ==
  /\ \E c \in AllCalls : c.op = "getOceanDataMultipleLocations" /\ c.st = "resolved"
  /\ subInverted
  /\ sub[1].live /\ ~sub[2].live

\* C7: for numeric latitude and longitude, getOceanWeather and
\* getWaterTemperature return a value whose location.latitude and
\* location.longitude are the requested coordinates, on the live path and on
\* the fallback path.
C7_CoordinatesEchoed ==
  \A c \in AllCalls :
    ( /\ c.op \in {"getOceanWeather", "getWaterTemperature"}
      /\ c.st # "pending"
      /\ c.args[1].t = "number" /\ c.args[2].t = "number" ) =>
      /\ c.st = "resolved"
      /\ c.value.f.location.f.latitude = c.args[1]
      /\ c.value.f.location.f.longitude = c.args[2]

\* The fallback of a call for (40.7, -74.0), the coordinates of the test.
C7_Witness ==
  \E c \in AllCalls :
    /\ c.op = "getOceanWeather" /\ c.st = "resolved" /\ ~c.live
    /\ c.args = <<Dec(407, 1), Dec(-740, 1)>>
    /\ c.value.f.location.f.latitude = Dec(407, 1)

\* C8: every record getFishSpecies and getFishByFamily return, live or
\* fallback and whatever the upstream record holds, has a non-empty id, a
\* non-empty name, a non-empty family, and a marine field that is 0 or 1.
C8_FishRecordsWellFormed ==
  \A c \in AllCalls :
    (c.op \in {"getFishSpecies", "getFishByFamily"} /\ c.st = "resolved") =>
      \A i \in DOMAIN c.value.items :
        LET fish == c.value.items[i]
        IN /\ Present(Field(fish, "id"))
           /\ Present(Field(fish, "name"))
           /\ Present(Field(fish, "family"))
           /\ Field(fish, "marine") \in {Num(0), Num(1)}

\* C9: whatever the statistics body holds, the totalSpecies,
\* totalObservations and totalDatasets getSpeciesStats returns are numbers
\* and are not negative.
C9_StatsNumericNonNegative ==
  \A c \in AllCalls :
    (c.op = "getSpeciesStats" /\ c.st = "resolved") =>
      \A k \in {"totalSpecies", "totalObservations", "totalDatasets"} :
        /\ Field(c.value, k).t = "number"
        /\ Field(c.value, k).n >= 0

\* The argument a route passes when the default stands for an absent or
\* non-numeric parameter only.
DefaultWhenNotNumeric(parsed, dflt) == IF parsed.t = "NaN" THEN dflt ELSE parsed

\* C10: on /api/fish-species, /api/biodiversity, /api/ocean-weather and
\* /api/water-temperature the default (10, 20, 37.5, -122.4) is passed to the
\* adapter exactly when the parameter is absent or not numeric, a parameter
\* that parses as a number, 0 included, is passed as parsed, and no request
\* is refused for its parameters.
C10_DefaultOnlyWhenNotNumeric ==
  (req.kind = "http" /\ Len(req.query) > 0) =>
    /\ response.status \in {0, 200}
    /\ CASE req.route = "/api/fish-species" ->
              calls[1].args[1] = DefaultWhenNotNumeric(parseInt(req.query[1]), Num(10))
         [] req.route = "/api/biodiversity" ->
              calls[1].args[1].f.limit =
                DefaultWhenNotNumeric(parseInt(req.query[1]), Num(20))
         [] OTHER ->
              /\ calls[1].args[1] =
                   DefaultWhenNotNumeric(parseFloat(req.query[1]), Dec(375, 1))
              /\ calls[1].args[2] =
                   DefaultWhenNotNumeric(parseFloat(req.query[2]), Dec(-1224, 1))

\* A JSON object with a boolean success field and an ISO-8601 timestamp.
IsEnvelope(resp) ==
  /\ resp.body.t = "object"
  /\ Field(resp.body, "success").t = "boolean"
  /\ Field(resp.body, "timestamp") = Timestamp

\* What a route handler with adapter calls answers when one of them rejects.
AnswersOnError ==
  IF req.kind = "http" /\ calls # <<>>
  THEN {HandlerResponse(req, [calls EXCEPT ![i] = Settled(@, Rejected)]) :
          i \in DOMAIN calls}
  ELSE {}

\* C11 as stated: every response the server sends, for any path (a route on
\* success or on error, the health route, the 404 handler, the error
\* middleware), is a JSON envelope with a boolean success and an ISO-8601
\* timestamp.
C11_EveryResponseIsEnvelope ==
  /\ response.status # 0 => IsEnvelope(response)
  /\ \A r \in AnswersOnError : IsEnvelope(r)

\* C11 amended: the answer of a data route, on success and on error, and of
\* the error middleware is a JSON envelope with a boolean success and an
\* ISO-8601 timestamp; the health answer has the timestamp and no success
\* field; the 404 answer has success false and no timestamp.
C11_EnvelopeByHandler ==
  /\ response.status # 0 =>
       CASE req.route = "/api/health" ->
              /\ response.status = 200
              /\ DOMAIN response.body.f = {"status", "message", "timestamp"}
              /\ response.body.f.timestamp = Timestamp
         [] req.route = "404" ->
              /\ response.body.f.success = Bool(FALSE)
              /\ "timestamp" \notin DOMAIN response.body.f
         [] req.route = "error middleware" ->
              /\ response.status = 500
              /\ IsEnvelope(response)
              /\ response.body.f.success = Bool(FALSE)
         [] OTHER ->
              /\ response.status = 200
              /\ IsEnvelope(response)
              /\ response.body.f.success = Bool(TRUE)
  /\ \A r \in AnswersOnError :
       r.status = 500 /\ IsEnvelope(r) /\ r.body.f.success = Bool(FALSE)

\* The error middleware has answered a request.
C11_Witness ==
  /\ req.kind = "http" /\ req.route = "error middleware"
  /\ response.status = 500
  /\ IsEnvelope(response)

\* The paths of the routes the server defines: eight fixed paths and
\* /api/fish-species/ followed by one segment.
DefinedPath(path) ==
  \/ path \in { <<"api", "health">>, <<"api", "fish-species">>,
                 <<"api", "biodiversity">>, <<"api", "species-stats">>,
                 <<"api", "ocean-weather">>, <<"api", "water-temperature">>,
                 <<"api", "ocean-data-locations">>, <<"api", "dashboard">> }
  \/ Len(path) = 3 /\ path[1] = "api" /\ path[2] = "fish-species"

ReadingPresent(r) == r.t \notin {"undefined", "null"}

\* What C16 asks of a displayed value for a reading: the reading with two
\* decimals when it is there, 0 included, and 'N/A' when it is not.
TwoDecimalsOrNA(r, shown) ==
  IF ReadingPresent(r) THEN shown = ToFixed(ParseFloatValue(r), 2)
  ELSE shown = Str("N/A")

\* C16: in the value getOceanWeather builds from an upstream body, the wave
\* height, wave period, wind wave height, maximum and minimum temperature
\* are text with two decimals; a reading the body lacks is shown as 'N/A'
\* and a reading it has, 0 included, as its own number.
C16_TwoDecimalsOrNotAvailable ==
  \A c \in AllCalls :
    (c.op = "getOceanWeather" /\ c.st = "resolved" /\ c.live) =>
      \A data \in MarineBodies :
        (Truthy(data)
         /\ c.value = OceanWeatherLive(Default(c.args[1], Dec(375, 1)),
                                       Default(c.args[2], Dec(-1224, 1)), data)) =>
          LET hourly == Field(data, "hourly")
              daily == Field(data, "daily")
              current == c.value.f.current.f
          IN /\ TwoDecimalsOrNA(OptIndex0(Field(hourly, "wave_height")),
                                current.waveHeight)
             /\ TwoDecimalsOrNA(OptIndex0(Field(hourly, "wave_period")),
                                current.wavePeriod)
             /\ TwoDecimalsOrNA(OptIndex0(Field(hourly, "wind_wave_height")),
                                current.windWaveHeight)
             /\ TwoDecimalsOrNA(OptIndex0(Field(daily, "temperature_2m_max")),
                                c.value.f.daily.f.maxTemp)
             /\ TwoDecimalsOrNA(OptIndex0(Field(daily, "temperature_2m_min")),
                                c.value.f.daily.f.minTemp)

\* The adapter operations that issue one GET.
SingleGetOps ==
  {"getFishSpecies", "getFishByFamily", "getBiodiversityObservations",
   "getSpeciesStats", "getObservationsByArea", "getOceanWeather",
   "getWaterTemperature"}

\* The GETs the fetches of the request ask for: one for each call of a
\* single-GET operation, three for getOceanDataMultipleLocations.
GetsAskedFor(skipped) ==
  LET n(i) == IF calls[i].op = "getOceanDataMultipleLocations" THEN 3
              ELSE IF i \in skipped THEN 0 ELSE 1
      RECURSIVE sum(_)
      sum(k) == IF k = 0 THEN 0 ELSE n(k) + sum(k - 1)
  IN sum(Len(calls))

C19_SettledMeansResolved ==
  /\ \A c \in AllCalls : c.st # "pending" => c.st = "resolved"
  /\ (req.kind = "http" /\ phase = "done" /\ DefinedPath(req.path)) =>
       response.status \in {200, 500}

\* C13: when a load ends in a request-level failure (no network, a status
\* that is not 2xx, a body that is not JSON, an envelope with success false),
\* then as it finishes the error banner is visible with the failure message,
\* the loading indicator is hidden, the dashboard is visible, and the fish,
\* statistics and weather sections show the local fallback dataset.
C13_FailureShowsFallback ==
  page.event = "failed" =>
    /\ page.errorVisible
    /\ page.errorText = "Error: " \o page.lastMessage
    /\ page.lastMessage \in {"Failed to fetch", "API error: 500", "Unexpected token",
                              "quota exceeded", "Failed to fetch data"}
    /\ page.loading = "none"
    /\ page.dashboardVisible
    /\ page.fish.kind = "cards"
    /\ [i \in DOMAIN page.fish.items |-> page.fish.items[i].title] =
         <<Str("Blue Whale"), Str("Clownfish"), Str("Sea Turtle")>>
    /\ page.stats.kind = "tiles"
    /\ page.stats.totalSpecies = [t |-> "string", s |-> "grouped", n |-> 234567, d |-> 0]
    /\ page.weather.kind = "cards"
    /\ [i \in DOMAIN page.weather.items |-> page.weather.items[i].name] =
         <<Str("San Francisco Bay"), Str("Great Barrier Reef")>>
    /\ page.weather.items[1].waveHeight = FixedText(15, 1)

\* A load was answered with status 500 while another load was still in
\* flight, and the page shows the banner and the fallback.
C13_Witness ==
  /\ page.event = "failed"
  /\ page.lastMessage = "API error: 500"
  /\ Len(page.loads) = 1
  /\ page.errorVisible /\ page.dashboardVisible
  /\ page.fish.kind = "cards"

\* An input that is missing or empty.
MissingOrEmpty(v) == ~Truthy(v) \/ IsEmptyList(v)

\* C14: after a response with success true, each of the four sections
\* whose input is missing or empty holds a placeholder in its own container,
\* and each section whose input can be rendered holds it, whatever the other
\* three inputs are.
C14_SectionsIndependent ==
  page.event \in {"rendered", "render failed"} =>
    LET data == page.lastData
        fishSpecies == Field(data, "fishSpecies")
        stats == Field(data, "stats")
        biodiversity == Field(data, "biodiversity")
        oceanWeather == Field(data, "oceanWeather")
    IN /\ MissingOrEmpty(fishSpecies) => page.fish.kind = "placeholder"
       /\ MissingOrEmpty(stats) => page.stats.kind = "placeholder"
       /\ MissingOrEmpty(Field(biodiversity, "observations")) =>
            page.bio.kind = "placeholder"
       /\ MissingOrEmpty(oceanWeather) => page.weather.kind = "placeholder"
       /\ renderFishSpecies(fishSpecies) # Thrown =>
            page.fish = renderFishSpecies(fishSpecies)
       /\ renderBiodiversityObservations(biodiversity) # Thrown =>
            page.bio = renderBiodiversityObservations(biodiversity)
       /\ renderOceanWeather(oceanWeather) # Thrown =>
            page.weather = renderOceanWeather(oceanWeather)

\* Two texts are the same string.
SameText(shown, supplied) ==
  /\ shown.t = "string"
  /\ shown.s = supplied.s
  /\ "n" \in DOMAIN supplied =>
       "n" \in DOMAIN shown /\ shown.n = supplied.n /\ shown.d = supplied.d

\* The items of a list, none when it is not one.
Items(v) == IF v.t = "array" THEN v.items ELSE <<>>

\* C15: after a payload has been rendered, the family shown on each fish
\* card, the species shown on each observation and the wave height shown on
\* each weather card are the strings the payload supplied.
C15_RoundTrip ==
  page.event = "rendered" =>
    LET data == page.lastData
        fishSpecies == Items(Field(data, "fishSpecies"))
        observations == Items(Field(Field(data, "biodiversity"), "observations"))
        oceanWeather == Items(Field(data, "oceanWeather"))
    IN /\ \A i \in DOMAIN fishSpecies :
            Field(fishSpecies[i], "family").t = "string" =>
              SameText(page.fish.items[i].family, Field(fishSpecies[i], "family"))
       /\ \A i \in DOMAIN observations :
            Field(observations[i], "species").t = "string" =>
              SameText(page.bio.items[i].species, Field(observations[i], "species"))
       /\ \A i \in DOMAIN oceanWeather :
            LET waveHeight == Field(Field(oceanWeather[i], "current"), "waveHeight")
            IN waveHeight.t = "string" =>
                 SameText(page.weather.items[i].waveHeight, waveHeight)

RECURSIVE Pow2(_)
Pow2(k) == IF k = 0 THEN 1 ELSE 2 * Pow2(k - 1)

C20_BannerIffLastLoadFailed ==
  (page.triggers > 0 /\ page.loads = <<>>) =>
    (page.errorVisible <=> page.event \in {"failed", "render failed"})

\* C24: in the records getFishSpecies builds from an upstream body, the
\* marine, freshwater and brackish fields equal the Marine, Freshwater and
\* Brackish flags (0 or 1) of the upstream record that carries them; the
\* default stands for a flag only when the record has none.
C24_DefaultOnlyWhenMissing ==
  \A c \in AllCalls :
    (c.op = "getFishSpecies" /\ c.st = "resolved" /\ c.live) =>
      \A data \in FishBodies :
        (~EmptyBody(data) /\ ~MapThrows(data)
         /\ c.value = getFishSpecies(c.args[1], Response(data)).value) =>
          \A i \in DOMAIN data.items :
            \A flag \in {<<"Marine", "marine">>, <<"Freshwater", "freshwater">>,
                          <<"Brackish", "brackish">>} :
              Field(data.items[i], flag[1]) \in {Num(0), Num(1)} =>
                Field(c.value.items[i], flag[2]) = Field(data.items[i], flag[1])

\* The weather snapshots in the value of a settled call.
Snapshots(c) ==
  IF c.op = "getOceanWeather" THEN {c.value}
  ELSE {c.value.items[i] : i \in DOMAIN c.value.items}

\* C23: in every snapshot getOceanWeather and getOceanDataMultipleLocations
\* return, built from an upstream body or taken from a fallback,
\* current.condition is the class getWaveCondition gives the snapshot's
\* current.waveHeight.
C23_ConditionIsClassOfWaveHeight ==
  \A c \in AllCalls :
    (c.op \in {"getOceanWeather", "getOceanDataMultipleLocations"}
     /\ c.st = "resolved") =>
      \A w \in Snapshots(c) :
        LET current == Field(w, "current")
        IN Field(current, "condition") = getWaveCondition(Field(current, "waveHeight"))

\* C22: when the load that finished last has failed, the fish, statistics
\* and weather containers show the local fallback and the observations
\* container shows no observation of an earlier response.
C22_NoEarlierDataAfterFailure ==
  page.event \in {"failed", "render failed"} =>
    /\ page.fish = renderFishSpecies(defaultFish)
    /\ page.stats = renderBiodiversityStats(defaultStats)
    /\ page.weather = renderOceanWeather(defaultWeather)
    /\ page.bio.kind # "cards"

\* C21: once every load that was started has finished, the four containers
\* hold what the most recently started load left in them, whatever the order
\* in which the loads finished.
C21_NewestLoadWins ==
  (page.triggers > 0 /\ page.loads = <<>>) =>
    <<page.fish, page.stats, page.bio, page.weather>> = page.newest

====
